---- MODULE Spec2Model ----
(***************************************************************************)
(* Staff hand-off core of mtom-ai: the Staff Directory (StaffService),     *)
(* the Queue and the Assignment Ledger (QueueService over                  *)
(* InMemoryQueueStore) and the socket coordinator (SocketService).         *)
(*                                                                         *)
(* Every async method is cut at its await points: one action per           *)
(* synchronous run between two awaits.  A method call runs synchronously   *)
(* up to the callee's first await, so a read made by the callee belongs to *)
(* the caller's step.  Invocations in flight are the entries of `tasks`.   *)
(***************************************************************************)
EXTENDS Integers, Sequences, FiniteSets, TLC

\* ------------------------------------------------------------------ bounds
NumTasks == 2            \* async invocations that may be in flight at once
MaxQueue == 3            \* entries the queue Map may hold
MaxTime == 2             \* last clock reading (Date.now() in coarse units)
MaxMessages == 2         \* messages a session's history may hold
AdminMaxChats == 2       \* maxConcurrentChats of the first default staff (10 in the source)
AgentMaxChats == 1       \* maxConcurrentChats of the second default staff (5 in the source)

\* --------------------------------------------------------------- universes
StaffOrder == <<"admin", "agent">>      \* insertion order of the staff Map
StaffIds == {StaffOrder[i] : i \in 1..Len(StaffOrder)}
UnknownStaff == "nobody"                \* an id that is not in the staff Map
StaffArgs == StaffIds \cup {UnknownStaff}
SessionIds == {"s1", "s2", "s3"}
Priorities == {"low", "medium", "high"}
StaffStatuses == {"online", "offline", "busy", "away"}
TaskIds == 1..NumTasks
ObjIds == 1..(Cardinality(SessionIds) + NumTasks)
NoRef == 0
NoneId == "none"
ConnIds == {"c1", "c2"}                 \* the sockets that may be open at once
NoConn == "no_socket"
UnknownSession == "ghost"               \* an id that is not in the sessions Map
SessionArgs == SessionIds \cup {UnknownSession}
StaffTokens == [admin |-> "tok_admin", agent |-> "tok_agent"]   \* what login signs for a member
BadToken == "tok_bad"                   \* a token login has not issued
TokenArgs == {StaffTokens[id] : id \in StaffIds} \cup {BadToken}

\* a StaffAssignment object slot that holds no object
FreeObj == [sessionId |-> NoneId, staffId |-> NoneId, status |-> "free"]

IdleTask == [handler |-> "none", op |-> "idle", pc |-> "idle",
             sessionId |-> NoneId, staffId |-> NoneId, toStaffId |-> NoneId,
             head |-> NoneId, snap |-> 0, ref |-> NoRef, result |-> "none",
             conn |-> NoConn, role |-> "none", seq |-> 0, list |-> <<>>]

\* a connection slot: socket.data and the rooms of a socket, or no socket
ClosedConn == [open |-> FALSE, role |-> "none", staffId |-> NoneId, sessionId |-> NoneId,
               staffRoom |-> FALSE, rooms |-> {}]

VARIABLES
  staff,      \* InMemoryStaffStore.staff: id -> status, currentChatCount, maxConcurrentChats
  queue,      \* InMemoryQueueStore.queue: the Map's values in insertion order
  heap,       \* StaffAssignment objects by identity
  ledger,     \* InMemoryQueueStore.assignments: the objects the Map holds
  sessions,   \* InMemorySessionStore.sessions: id -> status, messages
  now,        \* the clock read by new Date()
  tasks,      \* async invocations in flight, each with its position and locals
  conns,      \* the sockets: socket.data and room membership of each connection
  staffSockets,     \* SocketService.staffSockets: staffId -> socket
  customerSockets,  \* SocketService.customerSockets: sessionId -> socket
  tokens,     \* InMemoryStaffStore.sessions: the tokens that map to a staff member
  sent,       \* what the last handler step emitted, as (event, receiving socket)
  routes      \* the services the staff routes create for themselves: tokens, staff, assignments

\* the state of the socket layer
netVars == <<conns, staffSockets, customerSockets, tokens, sent>>

vars == <<staff, queue, heap, ledger, sessions, now, tasks, netVars, routes>>

\* ------------------------------------------------------------ Staff store
InitialStaff ==
  [id \in StaffIds |->
     [status |-> "offline", currentChatCount |-> 0,
      maxConcurrentChats |-> IF id = "admin" THEN AdminMaxChats ELSE AgentMaxChats]]

\* an update that rebuilds the record around the new count
ReplaceCount(st, id, n) ==
  [st EXCEPT ![id] = [status |-> "offline", currentChatCount |-> n,
                      maxConcurrentChats |-> st[id].maxConcurrentChats]]

\* InMemoryStaffStore.updateStaff restricted to the currentChatCount update
SetCount(st, id, n) == [st EXCEPT ![id].currentChatCount = n]

\* InMemoryStaffStore.updateStaff restricted to the status update
SetStatus(st, id, s) == [st EXCEPT ![id].status = s]

\* StaffService.getAvailableStaff, as a sequence in Map order
RECURSIVE AvailableFrom(_, _)
AvailableFrom(st, i) ==
  IF i > Len(StaffOrder) THEN <<>>
  ELSE LET id == StaffOrder[i]
       IN (IF st[id].status = "online"
              /\ st[id].currentChatCount < st[id].maxConcurrentChats
           THEN <<id>> ELSE <<>>) \o AvailableFrom(st, i + 1)

\* the staff members that are online, whatever their load
GetOnlineStaff(st) == SelectSeq(StaffOrder, LAMBDA id : st[id].status = "online")

GetAvailableStaff(st) == AvailableFrom(st, 1)

\* availableStaff.reduce((best, current) =>
\*    current.currentChatCount < best.currentChatCount ? current : best)
RECURSIVE ReduceBest(_, _, _, _)
ReduceBest(st, avail, i, best) ==
  IF i > Len(avail) THEN best
  ELSE ReduceBest(st, avail, i + 1,
         IF st[avail[i]].currentChatCount < st[best].currentChatCount
         THEN avail[i] ELSE best)

\* a routing that takes the first available staff member, whatever the loads
FirstStaff(st) ==
  LET avail == GetAvailableStaff(st)
  IN IF Len(avail) = 0 THEN NoneId ELSE avail[1]

BestStaff(st) ==
  LET avail == GetAvailableStaff(st)
  IN IF Len(avail) = 0 THEN NoneId ELSE ReduceBest(st, avail, 2, avail[1])

\* a capacity test that lets every increment through
NeverFull(count, max) == FALSE

\* staff.currentChatCount >= staff.maxConcurrentChats on a staff record read earlier
Full(count, max) == count >= max

\* a reading on which no staff member counts as full
NoCapacityTest(st, id) == FALSE

\* the capacity test of assignChatToStaff / transferChat on the getAllStaff reading
AtCapacity(st, id) == Full(st[id].currentChatCount, st[id].maxConcurrentChats)

\* a decrement without a floor
Decrement(n) == n - 1

\* Math.max(0, n - 1) of unassignChat
DecrementFloor(n) == IF n - 1 > 0 THEN n - 1 ELSE 0

\* ------------------------------------------------------------ Queue store
PriorityOrder(p) == CASE p = "high" -> 3 [] p = "medium" -> 2 [] OTHER -> 1

\* a comparator that serves the lower priority first
QueueCompareAscending(a, b) ==
  IF PriorityOrder(a.priority) # PriorityOrder(b.priority)
  THEN PriorityOrder(a.priority) - PriorityOrder(b.priority)
  ELSE a.createdAt - b.createdAt

\* the comparator of getQueue's sort: negative when a goes before b
QueueCompare(a, b) ==
  IF PriorityOrder(a.priority) # PriorityOrder(b.priority)
  THEN PriorityOrder(b.priority) - PriorityOrder(a.priority)
  ELSE a.createdAt - b.createdAt

\* Array.prototype.sort is stable: x goes before the first y it precedes
RECURSIVE InsertSorted(_, _)
InsertSorted(x, s) ==
  IF s = <<>> THEN <<x>>
  ELSE IF QueueCompare(x, Head(s)) < 0 THEN <<x>> \o s
  ELSE <<Head(s)>> \o InsertSorted(x, Tail(s))

RECURSIVE SortFrom(_, _, _)
SortFrom(q, i, acc) ==
  IF i > Len(q) THEN acc ELSE SortFrom(q, i + 1, InsertSorted(q[i], acc))

\* InMemoryQueueStore.getQueue
GetQueue(q) == SortFrom(q, 1, <<>>)

\* InMemoryQueueStore.addToQueue
AddToQueueStore(q, sessionId, priority, t) ==
  Append(q, [sessionId |-> sessionId, priority |-> priority, createdAt |-> t])

\* InMemoryQueueStore.removeFromQueue: deletes the first entry of the session
RECURSIVE RemoveFromQueueStore(_, _)
RemoveFromQueueStore(q, sessionId) ==
  IF q = <<>> THEN <<>>
  ELSE IF Head(q).sessionId = sessionId THEN Tail(q)
  ELSE <<Head(q)>> \o RemoveFromQueueStore(Tail(q), sessionId)

QueuedSessions(q) == {q[i].sessionId : i \in 1..Len(q)}

\* ----------------------------------------------------------- Ledger store
\* the object the assignments Map holds under the key, or NoRef
GetAssignment(h, l, sessionId) ==
  IF \E o \in l : h[o].sessionId = sessionId
  THEN CHOOSE o \in l : h[o].sessionId = sessionId
  ELSE NoRef

\* object slots referenced by the Map or by a local of a task in flight
Referenced(l, ts) == l \cup {ts[t].ref : t \in TaskIds}

\* objects nothing refers to any more are dropped
Collect(h, l, ts) == [o \in ObjIds |-> IF o \in Referenced(l, ts) THEN h[o] ELSE FreeObj]

\* a Map.set that left the key's previous value in place
MapKeepAll(h, l, sessionId) == l

\* Map.set(sessionId, ...): the entries of the other keys stay in the Map
MapKeep(h, l, sessionId) == {p \in l : h[p].sessionId # sessionId}

\* the first slot that neither the Map nor a task would still refer to
NewObj(keep, ts) ==
  CHOOSE o \in ObjIds : /\ o \notin Referenced(keep, ts)
                        /\ \A p \in ObjIds : p \notin Referenced(keep, ts) => o <= p

\* ---------------------------------------------------------- Session store
\* InMemorySessionStore.createSession: status 'active', no messages
InitialSessions == [s \in SessionIds |-> [status |-> "active", messages |-> <<>>]]

\* SessionService.updateSessionStatus
SetSessionStatus(ss, sessionId, status) == [ss EXCEPT ![sessionId].status = status]

\* SessionService.addMessage; a message is kept as its kind: "user", "staff"
\* (an assistant message a staff member sent), "ai" or "apology"
AddMessage(ss, sessionId, kind) ==
  [ss EXCEPT ![sessionId].messages = Append(@, kind)]

\* no entry of the assignments Map
NoAssignment == [staffId |-> NoneId, status |-> "none"]

\* the StaffService and QueueService of the staff routes after construction:
\* no token, the default staff, no assignment; nothing fills their queue and
\* their SessionService never holds a session
InitialRoutes ==
  [tokens |-> {}, staff |-> InitialStaff, ledger |-> [s \in SessionIds |-> NoAssignment]]

\* ------------------------------------------------------------------- Init
\* no socket is connected and nobody has logged in
NoClients ==
  /\ conns = [c \in ConnIds |-> ClosedConn]
  /\ staffSockets = [id \in StaffIds |-> NoConn]
  /\ customerSockets = [s \in SessionArgs |-> NoConn]
  /\ tokens = {}
  /\ sent = {}
  /\ routes = InitialRoutes

Init ==
  /\ staff = InitialStaff
  /\ queue = <<>>
  /\ heap = [o \in ObjIds |-> FreeObj]
  /\ ledger = {}
  /\ sessions = InitialSessions
  /\ now = 0
  /\ tasks = [t \in TaskIds |-> IdleTask]
  /\ NoClients

Idle(t) == tasks[t].op = "idle"

\* a task's locals are dropped when its invocation returns
Finish(t, res) ==
  [IdleTask EXCEPT !.handler = tasks[t].handler, !.op = tasks[t].op,
                   !.sessionId = tasks[t].sessionId, !.staffId = tasks[t].staffId,
                   !.toStaffId = tasks[t].toStaffId, !.head = tasks[t].head,
                   !.pc = "done", !.result = res]

\* what the awaiting caller gets: a socket handler goes on, a direct call ends
Ret(t, res) ==
  IF tasks[t].handler = "none" THEN Finish(t, res)
  ELSE [tasks[t] EXCEPT !.pc = "h_after", !.result = res, !.ref = NoRef, !.snap = 0]

\* the open sockets that have joined the 'staff' room
StaffRoom(cs) == {c \in ConnIds : cs[c].open /\ cs[c].staffRoom}

\* the open sockets that have joined the room of the session
SessionRoom(cs, sessionId) == {c \in ConnIds : cs[c].open /\ sessionId \in cs[c].rooms}

\* io.to(...).emit / socket.emit of one event to a set of sockets
Emit(event, receivers) == {[event |-> event, to |-> c] : c \in receivers}

\* io.to(room).emit('new_message', {sessionId, message}): the message is told
\* by what it is and by its place among the messages stored so far
MsgEmit(kind, id, receivers) ==
  {[event |-> "new_message", to |-> c, kind |-> kind, id |-> id] : c \in receivers}

\* the socket of that id, while it is open
OpenSocket(c) == {d \in ConnIds : d = c /\ conns[d].open}

\* one synchronous run over the stores that leaves the invocations in flight
\* as given, with what it emits
RunTasks(newTasks, newStaff, newQueue, newHeap, newLedger, newSessions, out) ==
  /\ tasks' = newTasks
  /\ staff' = newStaff
  /\ queue' = newQueue
  /\ ledger' = newLedger
  /\ heap' = Collect(newHeap, newLedger, tasks')
  /\ sessions' = newSessions
  /\ sent' = out
  /\ UNCHANGED <<now, conns, staffSockets, customerSockets, tokens, routes>>

\* one synchronous run of task t over the stores, with what it emits
RunEmit(t, newTask, newStaff, newQueue, newHeap, newLedger, newSessions, out) ==
  RunTasks([tasks EXCEPT ![t] = newTask], newStaff, newQueue, newHeap, newLedger,
           newSessions, out)

\* the first slot beside t that holds no invocation
FreeSlot(t) ==
  CHOOSE u \in TaskIds \ {t} : Idle(u) /\ \A v \in TaskIds \ {t} : Idle(v) => u <= v

\* broadcastQueueUpdate() called without await: up to its first await
\* getQueueStats has read the queue
BroadcastQueueUpdate(handler) ==
  [IdleTask EXCEPT !.handler = handler, !.op = "broadcastQueueUpdate", !.pc = "bq_len"]

\* a run of task t that ends with a call of broadcastQueueUpdate nobody awaits
RunSpawn(t, newTask, newStaff, newQueue, newHeap, newLedger, newSessions, out) ==
  /\ \E u \in TaskIds \ {t} : Idle(u)
  /\ RunTasks([tasks EXCEPT ![t] = newTask,
                            ![FreeSlot(t)] = BroadcastQueueUpdate(tasks[t].handler)],
              newStaff, newQueue, newHeap, newLedger, newSessions, out)

\* broadcastQueueUpdate: getQueueStats reads the queue length
BqLen(t) ==
  /\ tasks[t].pc = "bq_len"
  /\ RunEmit(t, [tasks[t] EXCEPT !.pc = "bq_emit", !.snap = Len(queue)],
             staff, queue, heap, ledger, sessions, {})

\* broadcastQueueUpdate: io.to('staff').emit('queue_updated', queueStats)
BqEmit(t) ==
  /\ tasks[t].pc = "bq_emit"
  /\ RunEmit(t, IdleTask, staff, queue, heap, ledger, sessions,
             {[event |-> "queue_updated", to |-> c, len |-> tasks[t].snap] :
                c \in StaffRoom(conns)})

\* one synchronous run of task t over the stores that emits nothing
Run(t, newTask, newStaff, newQueue, newHeap, newLedger, newSessions) ==
  RunEmit(t, newTask, newStaff, newQueue, newHeap, newLedger, newSessions, {})

\* one synchronous run of task t over the three stores of the services
Step(t, newTask, newStaff, newQueue, newHeap, newLedger) ==
  Run(t, newTask, newStaff, newQueue, newHeap, newLedger, sessions)

\* the promise of a direct call is consumed
Resolve(t) ==
  /\ tasks[t].pc = "done"
  /\ Step(t, IdleTask, staff, queue, heap, ledger)

\* new Date() moves on
Tick ==
  /\ now < MaxTime
  /\ now' = now + 1
  /\ UNCHANGED <<staff, queue, heap, ledger, sessions, tasks, netVars, routes>>

\* ------------------------------------------------- StaffService operations
\* StaffService.updateStatus: one synchronous store update
UpdateStatus(id, status) ==
  /\ staff' = IF id \in StaffIds THEN SetStatus(staff, id, status) ELSE staff
  /\ UNCHANGED <<queue, heap, ledger, sessions, now, tasks, netVars, routes>>

\* StaffService.assignChat up to its first await: findById
StartAssignChat(t, id) ==
  /\ Idle(t)
  /\ LET me == [IdleTask EXCEPT !.op = "assignChat", !.staffId = id]
     IN IF id \notin StaffIds
        THEN Step(t, [me EXCEPT !.pc = "done", !.result = "false"], staff, queue, heap, ledger)
        ELSE Step(t, [me EXCEPT !.pc = "ac_upd", !.snap = staff[id].currentChatCount],
                  staff, queue, heap, ledger)

\* StaffService.assignChat after findById: capacity test, then updateStaff
AcUpd(t) ==
  /\ tasks[t].pc = "ac_upd"
  /\ LET id == tasks[t].staffId
         snap == tasks[t].snap
     IN IF Full(snap, staff[id].maxConcurrentChats)
        THEN Step(t, Ret(t, "false"), staff, queue, heap, ledger)
        ELSE Step(t, Ret(t, "true"), SetCount(staff, id, snap + 1), queue, heap, ledger)

\* StaffService.unassignChat up to its first await: findById
StartUnassignChat(t, id) ==
  /\ Idle(t)
  /\ LET me == [IdleTask EXCEPT !.op = "unassignChat", !.staffId = id]
     IN IF id \notin StaffIds
        THEN Step(t, [me EXCEPT !.pc = "done", !.result = "false"], staff, queue, heap, ledger)
        ELSE Step(t, [me EXCEPT !.pc = "uc_dec", !.snap = staff[id].currentChatCount],
                  staff, queue, heap, ledger)

\* StaffService.unassignChat after findById: updateStaff with the floored count
UcDec(t) ==
  /\ tasks[t].pc = "uc_dec"
  /\ Step(t, Ret(t, "true"),
          SetCount(staff, tasks[t].staffId, DecrementFloor(tasks[t].snap)),
          queue, heap, ledger)

\* StaffService.getAvailableStaff called directly: getOnlineStaff copies the
\* online records when it is called and the filter runs on the copies
StartGetAvailableStaff(t) ==
  /\ Idle(t)
  /\ Step(t, [IdleTask EXCEPT !.op = "getAvailableStaff", !.pc = "done",
                              !.list = GetAvailableStaff(staff)],
          staff, queue, heap, ledger)

\* ------------------------------------------------- QueueService operations
\* QueueService.addToQueue called directly
AddToQueue(sessionId, priority) ==
  /\ Len(queue) < MaxQueue
  /\ queue' = AddToQueueStore(queue, sessionId, priority, now)
  /\ UNCHANGED <<staff, heap, ledger, sessions, now, tasks, netVars, routes>>

\* QueueService.removeFromQueue called directly
RemoveFromQueue(sessionId) ==
  /\ queue' = RemoveFromQueueStore(queue, sessionId)
  /\ UNCHANGED <<staff, heap, ledger, sessions, now, tasks, netVars, routes>>

\* assignNextChat up to its first await: store.getQueue (empty test on the snapshot)
AncGetQueue(t, c, handler, sessionId) ==
  LET q == GetQueue(queue)
      me == [tasks[t] EXCEPT !.handler = handler, !.op = "assignNextChat",
                             !.sessionId = sessionId, !.conn = c]
  IN IF Len(q) = 0
     THEN Step(t, [me EXCEPT !.pc = "anc_empty"], staff, queue, heap, ledger)
     ELSE Step(t, [me EXCEPT !.pc = "anc_avail", !.head = q[1].sessionId],
               staff, queue, heap, ledger)

StartAssignNextChat(t) ==
  /\ Idle(t)
  /\ AncGetQueue(t, NoConn, "none", NoneId)

\* assignNextChat: the queue snapshot was empty
AncEmpty(t) ==
  /\ tasks[t].pc = "anc_empty"
  /\ Step(t, Ret(t, "No chats in queue"), staff, queue, heap, ledger)

\* an assignNextChat that takes the head off the queue when nobody is
\* available
AncAvailDrop(t) ==
  /\ tasks[t].pc = "anc_avail"
  /\ LET best == BestStaff(staff)
     IN IF best = NoneId
        THEN Step(t, Ret(t, "No available staff"), staff,
                  RemoveFromQueueStore(queue, tasks[t].head), heap, ledger)
        ELSE Step(t, [tasks[t] EXCEPT !.pc = "anc_find", !.staffId = best],
                  staff, queue, heap, ledger)

\* assignNextChat: getAvailableStaff reads the staff Map; bestStaff is the
\* least loaded of that reading
AncAvail(t) ==
  /\ tasks[t].pc = "anc_avail"
  /\ LET best == BestStaff(staff)
     IN IF best = NoneId
        THEN Step(t, Ret(t, "No available staff"), staff, queue, heap, ledger)
        ELSE Step(t, [tasks[t] EXCEPT !.pc = "anc_find", !.staffId = best],
                  staff, queue, heap, ledger)

\* assignNextChat: assignChat(bestStaff.id) up to its await: findById
AncFind(t) ==
  /\ tasks[t].pc = "anc_find"
  /\ Step(t, [tasks[t] EXCEPT !.pc = "anc_upd",
                              !.snap = staff[tasks[t].staffId].currentChatCount],
          staff, queue, heap, ledger)

\* assignNextChat: assignChat's capacity test and updateStaff
AncUpd(t) ==
  /\ tasks[t].pc = "anc_upd"
  /\ LET id == tasks[t].staffId
         snap == tasks[t].snap
     IN IF Full(snap, staff[id].maxConcurrentChats)
        THEN Step(t, Ret(t, "Failed to assign chat to staff"), staff, queue, heap, ledger)
        ELSE Step(t, [tasks[t] EXCEPT !.pc = "anc_asg", !.snap = 0],
                  SetCount(staff, id, snap + 1), queue, heap, ledger)

\* store.assignSession: a fresh 'assigned' object is set under the session's key
AssignSession(t, sessionId, nextPc) ==
  LET keep == MapKeep(heap, ledger, sessionId)
      o == NewObj(keep, tasks)
      h == [heap EXCEPT ![o] = [sessionId |-> sessionId,
                                staffId |-> tasks[t].staffId, status |-> "assigned"]]
  IN Step(t, [tasks[t] EXCEPT !.pc = nextPc, !.ref = o],
          staff, queue, h, keep \cup {o})

\* assignNextChat: store.assignSession(nextChat.sessionId, bestStaff.id)
AncAsg(t) ==
  /\ tasks[t].pc = "anc_asg"
  /\ AssignSession(t, tasks[t].head, "anc_rm")

\* assignNextChat: store.removeFromQueue(nextChat.sessionId), then success
AncRm(t) ==
  /\ tasks[t].pc = "anc_rm"
  /\ Step(t, Ret(t, "ok"), staff, RemoveFromQueueStore(queue, tasks[t].head), heap, ledger)

\* assignChatToStaff up to its first await: getAllStaff reads the staff Map;
\* the not-found and capacity tests are made on that reading
AcsGetAllStaff(t, c, handler, sessionId, staffId) ==
  LET me == [tasks[t] EXCEPT !.handler = handler, !.op = "assignChatToStaff",
                             !.sessionId = sessionId, !.staffId = staffId, !.conn = c]
  IN IF staffId \notin StaffIds
     THEN Step(t, [me EXCEPT !.pc = "acs_notfound"], staff, queue, heap, ledger)
     ELSE IF AtCapacity(staff, staffId)
     THEN Step(t, [me EXCEPT !.pc = "acs_full"], staff, queue, heap, ledger)
     ELSE Step(t, [me EXCEPT !.pc = "acs_find"], staff, queue, heap, ledger)

StartAssignChatToStaff(t, sessionId, staffId) ==
  /\ Idle(t)
  /\ AcsGetAllStaff(t, NoConn, "none", sessionId, staffId)

\* assignChatToStaff: targetStaff was not in the reading
AcsNotFound(t) ==
  /\ tasks[t].pc = "acs_notfound"
  /\ Step(t, Ret(t, "Staff member not found"), staff, queue, heap, ledger)

\* assignChatToStaff: targetStaff was at capacity in the reading
AcsFull(t) ==
  /\ tasks[t].pc = "acs_full"
  /\ Step(t, Ret(t, "Staff member at maximum capacity"), staff, queue, heap, ledger)

\* assignChatToStaff: assignChat(staffId) up to its await: findById
AcsFind(t) ==
  /\ tasks[t].pc = "acs_find"
  /\ Step(t, [tasks[t] EXCEPT !.pc = "acs_upd",
                              !.snap = staff[tasks[t].staffId].currentChatCount],
          staff, queue, heap, ledger)

\* an assignChatToStaff that drops the queue entry before it knows whether
\* the load increment went through
AcsUpdEager(t) ==
  /\ tasks[t].pc = "acs_upd"
  /\ LET id == tasks[t].staffId
         snap == tasks[t].snap
         q == RemoveFromQueueStore(queue, tasks[t].sessionId)
     IN IF Full(snap, staff[id].maxConcurrentChats)
        THEN Step(t, Ret(t, "Failed to assign chat to staff"), staff, q, heap, ledger)
        ELSE Step(t, [tasks[t] EXCEPT !.pc = "acs_asg", !.snap = 0],
                  SetCount(staff, id, snap + 1), queue, heap, ledger)

\* assignChatToStaff: assignChat's capacity test and updateStaff
AcsUpd(t) ==
  /\ tasks[t].pc = "acs_upd"
  /\ LET id == tasks[t].staffId
         snap == tasks[t].snap
     IN IF Full(snap, staff[id].maxConcurrentChats)
        THEN Step(t, Ret(t, "Failed to assign chat to staff"), staff, queue, heap, ledger)
        ELSE Step(t, [tasks[t] EXCEPT !.pc = "acs_asg", !.snap = 0],
                  SetCount(staff, id, snap + 1), queue, heap, ledger)

\* assignChatToStaff: store.assignSession(sessionId, staffId)
AcsAsg(t) ==
  /\ tasks[t].pc = "acs_asg"
  /\ AssignSession(t, tasks[t].sessionId, "acs_rm")

\* assignChatToStaff: store.removeFromQueue(sessionId), then success
AcsRm(t) ==
  /\ tasks[t].pc = "acs_rm"
  /\ Step(t, Ret(t, "ok"), staff, RemoveFromQueueStore(queue, tasks[t].sessionId),
          heap, ledger)

\* completeAssignment up to its first await: store.getAssignment returns the
\* Map's object itself
CaGetAssignment(t, c, handler, sessionId) ==
  LET me == [tasks[t] EXCEPT !.handler = handler, !.op = "completeAssignment",
                             !.sessionId = sessionId, !.conn = c]
  IN Step(t, [me EXCEPT !.pc = "ca_upd", !.ref = GetAssignment(heap, ledger, sessionId)],
          staff, queue, heap, ledger)

StartCompleteAssignment(t, sessionId) ==
  /\ Idle(t)
  /\ CaGetAssignment(t, NoConn, "none", sessionId)

\* completeAssignment: null test, then store.updateAssignmentStatus on the
\* object the Map holds now
CaUpd(t) ==
  /\ tasks[t].pc = "ca_upd"
  /\ IF tasks[t].ref = NoRef
     THEN Step(t, Ret(t, "false"), staff, queue, heap, ledger)
     ELSE LET cur == GetAssignment(heap, ledger, tasks[t].sessionId)
          IN Step(t, [tasks[t] EXCEPT !.pc = "ca_find"], staff, queue,
                  [heap EXCEPT ![cur].status = "completed"], ledger)

\* completeAssignment: unassignChat(assignment.staffId) up to its await: findById
CaFind(t) ==
  /\ tasks[t].pc = "ca_find"
  /\ LET id == heap[tasks[t].ref].staffId
     IN Step(t, [tasks[t] EXCEPT !.pc = "ca_dec", !.staffId = id,
                                 !.snap = staff[id].currentChatCount],
             staff, queue, heap, ledger)

\* completeAssignment: unassignChat's updateStaff, then true
CaDec(t) ==
  /\ tasks[t].pc = "ca_dec"
  /\ Step(t, Ret(t, "true"),
          SetCount(staff, tasks[t].staffId, DecrementFloor(tasks[t].snap)),
          queue, heap, ledger)

\* transferChat up to its first await: store.getAssignment
TcGetAssignment(t, c, handler, sessionId, fromStaffId, toStaffId) ==
  LET me == [tasks[t] EXCEPT !.handler = handler, !.op = "transferChat",
                             !.sessionId = sessionId, !.staffId = fromStaffId,
                             !.toStaffId = toStaffId, !.conn = c]
  IN Step(t, [me EXCEPT !.pc = "tc_all", !.ref = GetAssignment(heap, ledger, sessionId)],
          staff, queue, heap, ledger)

StartTransferChat(t, sessionId, fromStaffId, toStaffId) ==
  /\ Idle(t)
  /\ TcGetAssignment(t, NoConn, "none", sessionId, fromStaffId, toStaffId)

\* a transferChat that tests only that the session has a record, whoever
\* owns it
TcAllAnyOwner(t) ==
  /\ tasks[t].pc = "tc_all"
  /\ LET to == tasks[t].toStaffId
     IN IF tasks[t].ref = NoRef
        THEN Step(t, Ret(t, "Assignment not found or staff mismatch"),
                  staff, queue, heap, ledger)
        ELSE IF to \notin StaffIds
        THEN Step(t, [tasks[t] EXCEPT !.pc = "tc_notfound"], staff, queue, heap, ledger)
        ELSE IF AtCapacity(staff, to)
        THEN Step(t, [tasks[t] EXCEPT !.pc = "tc_full"], staff, queue, heap, ledger)
        ELSE Step(t, [tasks[t] EXCEPT !.pc = "tc_unfind"], staff, queue, heap, ledger)

\* transferChat: owner test on the object, then getAllStaff reads the staff
\* Map; the not-found and capacity tests are made on that reading
TcAll(t) ==
  /\ tasks[t].pc = "tc_all"
  /\ LET to == tasks[t].toStaffId
     IN IF tasks[t].ref = NoRef \/ heap[tasks[t].ref].staffId # tasks[t].staffId
        THEN Step(t, Ret(t, "Assignment not found or staff mismatch"),
                  staff, queue, heap, ledger)
        ELSE IF to \notin StaffIds
        THEN Step(t, [tasks[t] EXCEPT !.pc = "tc_notfound"], staff, queue, heap, ledger)
        ELSE IF AtCapacity(staff, to)
        THEN Step(t, [tasks[t] EXCEPT !.pc = "tc_full"], staff, queue, heap, ledger)
        ELSE Step(t, [tasks[t] EXCEPT !.pc = "tc_unfind"], staff, queue, heap, ledger)

\* transferChat: the target was not in the reading
TcNotFound(t) ==
  /\ tasks[t].pc = "tc_notfound"
  /\ Step(t, Ret(t, "Target staff member not found"), staff, queue, heap, ledger)

\* transferChat: the target was at capacity in the reading
TcFull(t) ==
  /\ tasks[t].pc = "tc_full"
  /\ Step(t, Ret(t, "Target staff member at maximum capacity"), staff, queue, heap, ledger)

\* transferChat: unassignChat(fromStaffId) up to its await: findById
TcUnFind(t) ==
  /\ tasks[t].pc = "tc_unfind"
  /\ Step(t, [tasks[t] EXCEPT !.pc = "tc_undec",
                              !.snap = staff[tasks[t].staffId].currentChatCount],
          staff, queue, heap, ledger)

\* transferChat: unassignChat's updateStaff
TcUnDec(t) ==
  /\ tasks[t].pc = "tc_undec"
  /\ Step(t, [tasks[t] EXCEPT !.pc = "tc_find", !.snap = 0],
          SetCount(staff, tasks[t].staffId, DecrementFloor(tasks[t].snap)),
          queue, heap, ledger)

\* transferChat: assignChat(toStaffId) up to its await: findById
TcFind(t) ==
  /\ tasks[t].pc = "tc_find"
  /\ Step(t, [tasks[t] EXCEPT !.pc = "tc_upd",
                              !.snap = staff[tasks[t].toStaffId].currentChatCount],
          staff, queue, heap, ledger)

\* transferChat: assignChat's capacity test and updateStaff
TcUpd(t) ==
  /\ tasks[t].pc = "tc_upd"
  /\ LET to == tasks[t].toStaffId
         snap == tasks[t].snap
     IN IF Full(snap, staff[to].maxConcurrentChats)
        THEN Step(t, [tasks[t] EXCEPT !.pc = "tc_rbfind", !.snap = 0],
                  staff, queue, heap, ledger)
        ELSE Step(t, [tasks[t] EXCEPT !.pc = "tc_set", !.snap = 0],
                  SetCount(staff, to, snap + 1), queue, heap, ledger)

\* transferChat rollback: assignChat(fromStaffId) up to its await: findById
TcRbFind(t) ==
  /\ tasks[t].pc = "tc_rbfind"
  /\ Step(t, [tasks[t] EXCEPT !.pc = "tc_rbupd",
                              !.snap = staff[tasks[t].staffId].currentChatCount],
          staff, queue, heap, ledger)

\* transferChat rollback: assignChat's capacity test and updateStaff, then failure
TcRbUpd(t) ==
  /\ tasks[t].pc = "tc_rbupd"
  /\ LET from == tasks[t].staffId
         snap == tasks[t].snap
     IN Step(t, Ret(t, "Failed to assign to new staff member"),
             IF Full(snap, staff[from].maxConcurrentChats) THEN staff
             ELSE SetCount(staff, from, snap + 1),
             queue, heap, ledger)

\* transferChat: assignment.staffId = toStaffId on the object read at the
\* start, and store.updateAssignment on the object the Map holds now
TcSet(t) ==
  /\ tasks[t].pc = "tc_set"
  /\ LET to == tasks[t].toStaffId
         cur == GetAssignment(heap, ledger, tasks[t].sessionId)
         h1 == [heap EXCEPT ![tasks[t].ref].staffId = to]
         h2 == IF cur = NoRef THEN h1 ELSE [h1 EXCEPT ![cur].staffId = to]
     IN Step(t, Ret(t, "ok"), staff, queue, h2, ledger)

\* ------------------------------------------------ SocketService handlers
\* request_staff of socket c up to its first await: queueService.addToQueue
RequestStaffFrom(t, c, sessionId, priority) ==
  /\ Idle(t)
  /\ IF c = NoConn THEN TRUE ELSE conns[c].open
  /\ Len(queue) < MaxQueue
  /\ Step(t, [IdleTask EXCEPT !.handler = "request_staff", !.op = "request_staff",
                              !.pc = "rs_status", !.sessionId = sessionId, !.conn = c],
          staff, AddToQueueStore(queue, sessionId, priority, now), heap, ledger)

\* request_staff as the services see it, whatever socket it came from
StartRequestStaff(t, sessionId, priority) == RequestStaffFrom(t, NoConn, sessionId, priority)

\* request_staff: updateSessionStatus(sessionId, 'waiting_for_staff'), the
\* added_to_queue emit, broadcastQueueUpdate() and the call of checkAndAssign
RsStatus(t) ==
  /\ tasks[t].pc = "rs_status"
  /\ RunSpawn(t, [tasks[t] EXCEPT !.pc = "rs_len"], staff, queue, heap, ledger,
              SetSessionStatus(sessions, tasks[t].sessionId, "waiting_for_staff"),
              Emit("added_to_queue", OpenSocket(tasks[t].conn)))

\* request_staff: checkAndAssign reads the queue statistics
RsLen(t) ==
  /\ tasks[t].pc = "rs_len"
  /\ IF Len(queue) > 0
     THEN Step(t, [tasks[t] EXCEPT !.pc = "rs_avail"], staff, queue, heap, ledger)
     ELSE Step(t, IdleTask, staff, queue, heap, ledger)

\* request_staff: checkAndAssign reads the available staff
RsAvail(t) ==
  /\ tasks[t].pc = "rs_avail"
  /\ IF Len(GetAvailableStaff(staff)) > 0
     THEN Step(t, [tasks[t] EXCEPT !.pc = "rs_assign"], staff, queue, heap, ledger)
     ELSE Step(t, IdleTask, staff, queue, heap, ledger)

\* request_staff: checkAndAssign calls assignNextChat
RsAssign(t) ==
  /\ tasks[t].pc = "rs_assign"
  /\ AncGetQueue(t, tasks[t].conn, "request_staff", tasks[t].sessionId)

\* assign_chat with a staffId: assignChatToStaff
StartAssignChatManual(t, sessionId, staffId) ==
  /\ Idle(t)
  /\ AcsGetAllStaff(t, NoConn, "assign_chat", sessionId, staffId)

\* assign_chat without a staffId: assignNextChat
StartAssignChatAuto(t, sessionId) ==
  /\ Idle(t)
  /\ AncGetQueue(t, NoConn, "assign_chat", sessionId)

\* transfer_chat: transferChat(sessionId, socket.data.staffId, toStaffId)
StartTransferChatEvent(t, sessionId, fromStaffId, toStaffId) ==
  /\ Idle(t)
  /\ TcGetAssignment(t, NoConn, "transfer_chat", sessionId, fromStaffId, toStaffId)

\* complete_chat: completeAssignment(sessionId)
StartCompleteChat(t, sessionId) ==
  /\ Idle(t)
  /\ CaGetAssignment(t, NoConn, "complete_chat", sessionId)

\* staff_status_update of an authenticated staff connection: updateStatus,
\* then the staff_status_changed emit
StaffStatusUpdate(id, status) == UpdateStatus(id, status)

\* assign_chat after a successful call: updateSessionStatus(data.sessionId,
\* 'with_staff'), chat_assigned to the staff member's socket, staff_joined to
\* the room of data.sessionId, broadcastQueueUpdate()
HAssigned(t) ==
  LET sid == tasks[t].sessionId
  IN RunSpawn(t, IdleTask, staff, queue, heap, ledger,
              SetSessionStatus(sessions, sid, "with_staff"),
              {[event |-> "chat_assigned", to |-> c, sessionId |-> sid] :
                 c \in OpenSocket(staffSockets[tasks[t].staffId])}
                \cup Emit("staff_joined", SessionRoom(conns, sid)))

\* transfer_chat after a successful call: both staff members and the room of
\* the session are told
HTransferred(t) ==
  RunEmit(t, IdleTask, staff, queue, heap, ledger, sessions,
          Emit("chat_transferred_out", OpenSocket(staffSockets[tasks[t].staffId]))
            \cup Emit("chat_transferred_in", OpenSocket(staffSockets[tasks[t].toStaffId]))
            \cup Emit("staff_changed", SessionRoom(conns, tasks[t].sessionId)))

\* complete_chat after completeAssignment, whatever it returned:
\* updateSessionStatus(sessionId, 'resolved'), chat_completed to the room,
\* chat_completed_confirmed to the socket, broadcastQueueUpdate()
HCompleted(t) ==
  RunSpawn(t, IdleTask, staff, queue, heap, ledger,
           SetSessionStatus(sessions, tasks[t].sessionId, "resolved"),
           Emit("chat_completed", SessionRoom(conns, tasks[t].sessionId))
             \cup Emit("chat_completed_confirmed", OpenSocket(tasks[t].conn)))

\* what a handler does once the service call it awaited has returned
HAfter(t) ==
  /\ tasks[t].pc = "h_after"
  /\ LET h == tasks[t].handler
         ok == tasks[t].result = "ok"
     IN CASE h = "assign_chat" /\ ok -> HAssigned(t)
          [] h = "assign_chat" /\ ~ok ->
               RunEmit(t, IdleTask, staff, queue, heap, ledger, sessions,
                       Emit("assignment_failed", OpenSocket(tasks[t].conn)))
          [] h = "transfer_chat" /\ ok -> HTransferred(t)
          [] h = "transfer_chat" /\ ~ok ->
               RunEmit(t, IdleTask, staff, queue, heap, ledger, sessions,
                       Emit("transfer_failed", OpenSocket(tasks[t].conn)))
          [] h = "complete_chat" -> HCompleted(t)
          [] OTHER -> Run(t, IdleTask, staff, queue, heap, ledger, sessions)

\* the messages the session store holds, all sessions together
StoredCount(ss) ==
  LET RECURSIVE Sum(_)
      Sum(S) == IF S = {} THEN 0
                ELSE LET s == CHOOSE x \in S : TRUE
                     IN Len(ss[s].messages) + Sum(S \ {s})
  IN Sum(SessionIds)

\* continuations run in any order
AnyInLine(t) == TRUE

\* the continuations of awaits on settled promises run in the order the
\* awaits were reached: of the handlers waiting on store.addMessage, the one
\* that stored first goes first
FirstInLine(t) ==
  \A u \in TaskIds \ {t} : tasks[u].pc = "sm_session" => tasks[t].seq < tasks[u].seq

\* send_message of socket c up to its first await: the message is built and
\* pushed onto the session's messages
SendMessageFrom(t, c, sessionId, role) ==
  /\ Idle(t)
  /\ IF c = NoConn THEN TRUE ELSE conns[c].open
  /\ Len(sessions[sessionId].messages) + (IF role = "customer" THEN 2 ELSE 1) <= MaxMessages
  /\ LET kind == IF role = "customer" THEN "user" ELSE "staff"
         stored == AddMessage(sessions, sessionId, kind)
     IN Run(t, [IdleTask EXCEPT !.handler = "send_message", !.op = "send_message",
                                !.pc = "sm_session", !.sessionId = sessionId,
                                !.conn = c, !.role = role, !.result = kind,
                                !.seq = StoredCount(stored)],
            staff, queue, heap, ledger, stored)

\* send_message as the service sees it, whatever socket it came from
StartSendMessage(t, sessionId, role) == SendMessageFrom(t, NoConn, sessionId, role)

\* send_message after addMessage: the message goes to the session room; for
\* a customer getSession and getConversationHistory follow and the knowledge
\* lookup is sent off, for a staff member the other staff are told
SmSession(t) ==
  /\ tasks[t].pc = "sm_session"
  /\ FirstInLine(t)
  /\ LET told == MsgEmit(tasks[t].result, tasks[t].seq, SessionRoom(conns, tasks[t].sessionId))
     IN IF tasks[t].role = "customer"
        THEN RunEmit(t, [tasks[t] EXCEPT !.pc = "sm_kb"], staff, queue, heap, ledger,
                     sessions, told)
        ELSE RunEmit(t, IdleTask, staff, queue, heap, ledger, sessions,
                     told \cup Emit("staff_message_sent", StaffRoom(conns) \ {tasks[t].conn}))

\* the apology of the inner catch block is pushed onto the session's messages
StoreReply(t, kind) ==
  LET stored == AddMessage(sessions, tasks[t].sessionId, kind)
  IN Run(t, [tasks[t] EXCEPT !.pc = "sm_emit", !.result = kind,
                             !.seq = StoredCount(stored)],
         staff, queue, heap, ledger, stored)

\* send_message: the knowledge lookup has returned and generateResponse is
\* invoked, or the lookup has thrown and the apology is stored
SmKnowledge(t, ok) ==
  /\ tasks[t].pc = "sm_kb"
  /\ IF ok
     THEN Step(t, [tasks[t] EXCEPT !.pc = "sm_ai"], staff, queue, heap, ledger)
     ELSE StoreReply(t, "apology")

\* a failure of generateResponse leaves the inner try block
SmAiThrow(t, ok) ==
  /\ tasks[t].pc = "sm_ai"
  /\ IF ok
     THEN StoreReply(t, "ai")
     ELSE RunEmit(t, IdleTask, staff, queue, heap, ledger, sessions,
                  Emit("message_failed", {tasks[t].conn} \cap {c \in ConnIds : conns[c].open}))

\* send_message: generateResponse has returned and its content is stored, or
\* it has thrown and the apology is stored
SmAi(t, ok) ==
  /\ tasks[t].pc = "sm_ai"
  /\ StoreReply(t, IF ok THEN "ai" ELSE "apology")

\* send_message after the reply is stored: the reply goes to the session room
SmEmit(t) ==
  /\ tasks[t].pc = "sm_emit"
  /\ RunEmit(t, IdleTask, staff, queue, heap, ledger, sessions,
             MsgEmit(tasks[t].result, tasks[t].seq, SessionRoom(conns, tasks[t].sessionId)))

\* ------------------------------------------- connections and sign-in
\* one synchronous run of task t over the socket layer
NetRun(t, newTask, newConns, newStaffSockets, newCustomerSockets, out) ==
  /\ tasks' = [tasks EXCEPT ![t] = newTask]
  /\ conns' = newConns
  /\ staffSockets' = newStaffSockets
  /\ customerSockets' = newCustomerSockets
  /\ sent' = out
  /\ UNCHANGED <<staff, queue, heap, ledger, sessions, now, tokens, routes>>

\* StaffService.login with the member's own credentials: the signed token is
\* stored and the member goes online
Login(id) ==
  /\ tokens' = tokens \cup {StaffTokens[id]}
  /\ staff' = SetStatus(staff, id, "online")
  /\ UNCHANGED <<queue, heap, ledger, sessions, now, tasks, conns, staffSockets,
                 customerSockets, sent, routes>>

\* InMemoryStaffStore.getStaffByToken: the member the token maps to, if any
StaffOfToken(toks, token) ==
  IF token \in toks /\ \E id \in StaffIds : StaffTokens[id] = token
  THEN CHOOSE id \in StaffIds : StaffTokens[id] = token
  ELSE NoneId

\* io.on('connection'): a socket with empty socket.data
Connect(c) ==
  /\ ~conns[c].open
  /\ conns' = [conns EXCEPT ![c] = [ClosedConn EXCEPT !.open = TRUE]]
  /\ sent' = {}
  /\ UNCHANGED <<staff, queue, heap, ledger, sessions, now, tasks, staffSockets,
                 customerSockets, tokens, routes>>

\* staff_authenticate up to its await: getStaffByToken reads the token Map
StartStaffAuthenticate(t, c, token) ==
  /\ Idle(t)
  /\ conns[c].open
  /\ NetRun(t, [IdleTask EXCEPT !.handler = "staff_authenticate",
                                !.op = "staff_authenticate", !.pc = "sa_after",
                                !.conn = c, !.staffId = StaffOfToken(tokens, token)],
            conns, staffSockets, customerSockets, {})

\* staff_authenticate after the lookup: the socket is registered as the
\* member's socket, joins the staff room and gets role 'staff', or the
\* failure is emitted
SaAfter(t) ==
  /\ tasks[t].pc = "sa_after"
  /\ LET c == tasks[t].conn
         id == tasks[t].staffId
     IN IF id = NoneId
        THEN NetRun(t, IdleTask, conns, staffSockets, customerSockets,
                    Emit("authentication_failed", {c} \cap {d \in ConnIds : conns[d].open}))
        ELSE LET cs == IF conns[c].open
                       THEN [conns EXCEPT ![c].staffRoom = TRUE, ![c].staffId = id,
                                          ![c].role = "staff"]
                       ELSE conns
             IN NetRun(t, IdleTask, cs, [staffSockets EXCEPT ![id] = c], customerSockets,
                       Emit("staff_authenticated", {c} \cap {d \in ConnIds : conns[d].open})
                         \cup Emit("staff_online", StaffRoom(cs) \ {c}))

\* customer_join: the socket is registered as the session's socket, joins the
\* session room and gets role 'customer'
CustomerJoin(c, sessionId) ==
  /\ conns[c].open
  /\ conns' = [conns EXCEPT ![c].rooms = @ \cup {sessionId}, ![c].sessionId = sessionId,
                            ![c].role = "customer"]
  /\ customerSockets' = [customerSockets EXCEPT ![sessionId] = c]
  /\ sent' = {}
  /\ UNCHANGED <<staff, queue, heap, ledger, sessions, now, tasks, staffSockets, tokens, routes>>

\* a disconnect that tells nobody
DisconnectSilent(c) ==
  /\ conns[c].open
  /\ LET isStaff == conns[c].role = "staff" /\ conns[c].staffId # NoneId
         isCustomer == conns[c].role = "customer" /\ conns[c].sessionId # NoneId
     IN /\ staffSockets' = IF isStaff THEN [staffSockets EXCEPT ![conns[c].staffId] = NoConn]
                           ELSE staffSockets
        /\ staff' = IF isStaff THEN SetStatus(staff, conns[c].staffId, "offline") ELSE staff
        /\ customerSockets' = IF isCustomer
                              THEN [customerSockets EXCEPT ![conns[c].sessionId] = NoConn]
                              ELSE customerSockets
        /\ sent' = {}
  /\ conns' = [conns EXCEPT ![c] = ClosedConn]
  /\ UNCHANGED <<queue, heap, ledger, sessions, now, tasks, tokens, routes>>

\* disconnect: a staff socket's member is unregistered and set offline and
\* the other staff are told; a customer socket's session is unregistered
Disconnect(c) ==
  /\ conns[c].open
  /\ LET isStaff == conns[c].role = "staff" /\ conns[c].staffId # NoneId
         isCustomer == conns[c].role = "customer" /\ conns[c].sessionId # NoneId
     IN /\ staffSockets' = IF isStaff THEN [staffSockets EXCEPT ![conns[c].staffId] = NoConn]
                           ELSE staffSockets
        /\ staff' = IF isStaff THEN SetStatus(staff, conns[c].staffId, "offline") ELSE staff
        /\ customerSockets' = IF isCustomer
                              THEN [customerSockets EXCEPT ![conns[c].sessionId] = NoConn]
                              ELSE customerSockets
        /\ sent' = IF isStaff THEN Emit("staff_offline", StaffRoom(conns) \ {c}) ELSE {}
  /\ conns' = [conns EXCEPT ![c] = ClosedConn]
  /\ UNCHANGED <<queue, heap, ledger, sessions, now, tasks, tokens, routes>>

\* staff_status_update as a socket sends it: handled for role 'staff' only
StaffStatusEvent(c, status) ==
  /\ conns[c].open
  /\ IF conns[c].role = "staff" /\ conns[c].staffId # NoneId
     THEN /\ staff' = SetStatus(staff, conns[c].staffId, status)
          /\ sent' = Emit("staff_status_changed", StaffRoom(conns))
     ELSE /\ staff' = staff
          /\ sent' = {}
  /\ UNCHANGED <<queue, heap, ledger, sessions, now, tasks, conns, staffSockets,
                 customerSockets, tokens, routes>>

\* an event the handler returns from at once
Ignored ==
  /\ sent' = {}
  /\ UNCHANGED <<staff, queue, heap, ledger, sessions, now, tasks, conns, staffSockets,
                 customerSockets, tokens, routes>>

\* assign_chat as a socket sends it: handled for role 'staff' only, by
\* assignChatToStaff when data.staffId is given and by assignNextChat otherwise
AssignChatEvent(t, c, sessionId, staffId) ==
  /\ Idle(t)
  /\ conns[c].open
  /\ IF conns[c].role # "staff" THEN Ignored
     ELSE IF staffId = NoneId THEN AncGetQueue(t, c, "assign_chat", sessionId)
     ELSE AcsGetAllStaff(t, c, "assign_chat", sessionId, staffId)

\* transfer_chat as a socket sends it: handled for role 'staff' only, from
\* socket.data.staffId
TransferChatEvent(t, c, sessionId, toStaffId) ==
  /\ Idle(t)
  /\ conns[c].open
  /\ IF conns[c].role # "staff" THEN Ignored
     ELSE TcGetAssignment(t, c, "transfer_chat", sessionId, conns[c].staffId, toStaffId)

\* complete_chat as a socket sends it: handled for role 'staff' only
CompleteChatEvent(t, c, sessionId) ==
  /\ Idle(t)
  /\ conns[c].open
  /\ IF conns[c].role # "staff" THEN Ignored
     ELSE CaGetAssignment(t, c, "complete_chat", sessionId)

\* ------------------------------------------------------- the staff routes
\* one request handled by the staff routes: only their own services change
RouteStep(newRoutes) ==
  /\ routes' = newRoutes
  /\ UNCHANGED <<staff, queue, heap, ledger, sessions, now, tasks, netVars>>

\* POST /login with the member's own credentials: the routes' StaffService
\* stores the signed token and sets the member online
RouteLogin(id) ==
  RouteStep([routes EXCEPT !.tokens = @ \cup {StaffTokens[id]},
                           !.staff = SetStatus(@, id, "online")])

\* authenticateStaff: the member the routes' StaffService knows the token of
AuthenticateStaff(token) == StaffOfToken(routes.tokens, token)

\* POST /assign-chat with a staffId: assignChatToStaff of the routes'
\* QueueService, then updateSessionStatus of the routes' SessionService,
\* which holds no session
RouteAssignChat(token, sessionId, staffId) ==
  IF \/ AuthenticateStaff(token) = NoneId
     \/ staffId \notin StaffIds
     \/ AtCapacity(routes.staff, staffId)
  THEN RouteStep(routes)
  ELSE RouteStep([routes EXCEPT
         !.staff = SetCount(@, staffId, @[staffId].currentChatCount + 1),
         !.ledger[sessionId] = [staffId |-> staffId, status |-> "assigned"]])

\* POST /transfer-chat: transferChat of the routes' QueueService from the
\* authenticated member
RouteTransferChat(token, sessionId, toStaffId) ==
  LET from == AuthenticateStaff(token)
      left == SetCount(routes.staff, from,
                       DecrementFloor(routes.staff[from].currentChatCount))
  IN IF \/ from = NoneId
        \/ routes.ledger[sessionId].status = "none"
        \/ routes.ledger[sessionId].staffId # from
        \/ toStaffId \notin StaffIds
        \/ AtCapacity(routes.staff, toStaffId)
     THEN RouteStep(routes)
     ELSE RouteStep([routes EXCEPT
            !.staff = SetCount(left, toStaffId, left[toStaffId].currentChatCount + 1),
            !.ledger[sessionId].staffId = toStaffId])

\* POST /complete-chat/:sessionId: completeAssignment of the routes'
\* QueueService, then updateSessionStatus of the routes' SessionService
RouteCompleteChat(token, sessionId) ==
  IF \/ AuthenticateStaff(token) = NoneId
     \/ routes.ledger[sessionId].status = "none"
  THEN RouteStep(routes)
  ELSE LET owner == routes.ledger[sessionId].staffId
       IN RouteStep([routes EXCEPT
            !.staff = SetCount(@, owner, DecrementFloor(@[owner].currentChatCount)),
            !.ledger[sessionId].status = "completed"])

\* ------------------------------------------------------- specifications
\* the steps of assignNextChat and assignChatToStaff after their first await
AssignStep(t) ==
  \/ AncEmpty(t) \/ AncAvail(t) \/ AncFind(t) \/ AncUpd(t) \/ AncAsg(t) \/ AncRm(t)
  \/ AcsNotFound(t) \/ AcsFull(t) \/ AcsFind(t) \/ AcsUpd(t) \/ AcsAsg(t) \/ AcsRm(t)

\* the steps of completeAssignment after its first await
CompleteStep(t) == CaUpd(t) \/ CaFind(t) \/ CaDec(t)

\* the steps of transferChat after its first await, the rollback apart
TransferStep(t) ==
  \/ TcAll(t) \/ TcNotFound(t) \/ TcFull(t) \/ TcUnFind(t) \/ TcUnDec(t)
  \/ TcFind(t) \/ TcUpd(t) \/ TcSet(t)

\* the rollback of transferChat, taken when the target filled up meanwhile
RollbackStep(t) == TcRbFind(t) \/ TcRbUpd(t)

\* the steps a QueueService invocation takes when nothing runs beside it
LedgerStep(t) == AssignStep(t) \/ CompleteStep(t) \/ TransferStep(t)

LedgerSessions == {"s1", "s2"}

\* no invocation is in flight
Quiet == \A u \in TaskIds : Idle(u)

\* the QueueService API driven by one caller at a time: each call runs to its
\* end before the next one starts, as handlers of separate events do when no
\* await leaves the process; the one-step store calls may fall in between
Next ==
  \/ \E t \in TaskIds : LedgerStep(t)
  \/ \E t \in TaskIds : Resolve(t)
  \/ \E s \in LedgerSessions : AddToQueue(s, "medium")
  \/ \E s \in LedgerSessions : RemoveFromQueue(s)
  \/ \E id \in StaffIds, st \in {"online", "offline"} : UpdateStatus(id, st)
  \/ Quiet /\ StartAssignNextChat(1)
  \/ Quiet /\ \E s \in LedgerSessions, id \in StaffArgs : StartAssignChatToStaff(1, s, id)
  \/ Quiet /\ \E s \in LedgerSessions : StartCompleteAssignment(1, s)
  \/ Quiet /\ \E s \in LedgerSessions, from \in StaffIds, to \in StaffArgs :
        StartTransferChat(1, s, from, to)

Spec == Init /\ [][Next]_vars

\* up to two queued sessions and any presence of the two staff members
RaceInit ==
  /\ staff \in {[id \in StaffIds |-> [InitialStaff[id] EXCEPT !.status = f[id]]] :
                  f \in [StaffIds -> {"online", "offline"}]}
  /\ \E n \in 0..2 :
       queue = SubSeq(AddToQueueStore(AddToQueueStore(<<>>, "s1", "medium", 0),
                                      "s2", "medium", 0), 1, n)
  /\ heap = [o \in ObjIds |-> FreeObj]
  /\ ledger = {}
  /\ sessions = InitialSessions
  /\ now = 0
  /\ tasks = [t \in TaskIds |-> IdleTask]
  /\ NoClients

\* assignments started together: every caller makes one call and the calls
\* interleave at their awaits
RaceNext ==
  \/ \E t \in TaskIds : AssignStep(t)
  \/ \E t \in TaskIds : StartAssignNextChat(t)
  \/ \E t \in TaskIds, s \in LedgerSessions, id \in StaffArgs :
        StartAssignChatToStaff(t, s, id)

SpecRace == RaceInit /\ [][RaceNext]_vars

\* the StaffService API driven by concurrent callers
StaffNext ==
  \/ \E t \in TaskIds, id \in StaffArgs : StartAssignChat(t, id)
  \/ \E t \in TaskIds : AcUpd(t)
  \/ \E t \in TaskIds, id \in StaffArgs : StartUnassignChat(t, id)
  \/ \E t \in TaskIds : UcDec(t)
  \/ \E t \in TaskIds : Resolve(t)
  \/ \E id \in StaffArgs, st \in StaffStatuses : UpdateStatus(id, st)

SpecStaff == Init /\ [][StaffNext]_vars

\* the StaffService API driven by one caller at a time, status changes may
\* fall in between
StaffCallNext ==
  \/ Quiet /\ \E id \in StaffArgs : StartAssignChat(1, id)
  \/ \E t \in TaskIds : AcUpd(t)
  \/ Quiet /\ \E id \in StaffArgs : StartUnassignChat(1, id)
  \/ \E t \in TaskIds : UcDec(t)
  \/ Quiet /\ StartGetAvailableStaff(1)
  \/ \E t \in TaskIds : Resolve(t)
  \/ \E id \in StaffIds, st \in StaffStatuses : UpdateStatus(id, st)

SpecStaffCall == Init /\ [][StaffCallNext]_vars

\* increments started together: every caller makes one assignChat call and
\* the calls interleave at their await, while staff members come and go
IncrementNext ==
  \/ \E t \in TaskIds, id \in StaffArgs : StartAssignChat(t, id)
  \/ \E t \in TaskIds : AcUpd(t)
  \/ \E id \in StaffIds, st \in {"online", "offline"} : UpdateStatus(id, st)

SpecIncrement == Init /\ [][IncrementNext]_vars

AutoRaceSessions == {"s1"}

\* auto-assignment by one caller while staff members come and go and a
\* second caller raises loads through the StaffService
AutoRaceNext ==
  \/ \E s \in AutoRaceSessions \ QueuedSessions(queue) : AddToQueue(s, "medium")
  \/ \E id \in StaffIds, st \in {"online", "offline"} : UpdateStatus(id, st)
  \/ StartAssignNextChat(1)
  \/ \E t \in TaskIds :
       AncEmpty(t) \/ AncAvail(t) \/ AncFind(t) \/ AncUpd(t) \/ AncAsg(t) \/ AncRm(t)
  \/ \E id \in StaffIds : StartAssignChat(2, id)
  \/ \E t \in TaskIds : AcUpd(t)
  \/ \E t \in TaskIds : Resolve(t)

SpecAutoRace == Init /\ [][AutoRaceNext]_vars

\* both staff members have logged in
QueueInit ==
  /\ staff = [id \in StaffIds |-> [InitialStaff[id] EXCEPT !.status = "online"]]
  /\ queue = <<>>
  /\ heap = [o \in ObjIds |-> FreeObj]
  /\ ledger = {}
  /\ sessions = InitialSessions
  /\ now = 0
  /\ tasks = [t \in TaskIds |-> IdleTask]
  /\ NoClients

\* escalations of any priority arrive over time, from sessions that are not
\* waiting already, and auto-assignment takes them off the queue, one call at
\* a time
QueueNext ==
  \/ Tick
  \/ \E s \in SessionIds \ QueuedSessions(queue), p \in Priorities : AddToQueue(s, p)
  \/ Quiet /\ StartAssignNextChat(1)
  \/ \E t \in TaskIds :
       AncEmpty(t) \/ AncAvail(t) \/ AncFind(t) \/ AncUpd(t) \/ AncAsg(t) \/ AncRm(t)
  \/ \E t \in TaskIds : Resolve(t)

SpecQueue == QueueInit /\ [][QueueNext]_vars

\* the sessions the staff members hold when the completions start
CompleteInit ==
  /\ \E f \in [LedgerSessions -> StaffIds] :
       /\ \A id \in StaffIds :
            Cardinality({s \in LedgerSessions : f[s] = id}) <= InitialStaff[id].maxConcurrentChats
       /\ staff = [id \in StaffIds |->
                     [InitialStaff[id] EXCEPT
                        !.status = "online",
                        !.currentChatCount = Cardinality({s \in LedgerSessions : f[s] = id})]]
       /\ heap = [o \in ObjIds |->
                    IF o = 1 THEN [sessionId |-> "s1", staffId |-> f["s1"], status |-> "assigned"]
                    ELSE IF o = 2 THEN [sessionId |-> "s2", staffId |-> f["s2"], status |-> "assigned"]
                    ELSE FreeObj]
  /\ ledger = {1, 2}
  /\ queue = <<>>
  /\ sessions = [s \in SessionIds |->
                   [status |-> IF s \in LedgerSessions THEN "with_staff" ELSE "active",
                    messages |-> <<>>]]
  /\ now = 0
  /\ tasks = [t \in TaskIds |-> IdleTask]
  /\ NoClients

\* chats are marked resolved, some of them more than once
CompleteNext ==
  \/ \E s \in SessionIds : Quiet /\ StartCompleteAssignment(1, s)
  \/ \E t \in TaskIds : CompleteStep(t)
  \/ \E t \in TaskIds : Resolve(t)

SpecComplete == CompleteInit /\ [][CompleteNext]_vars

SocketSessions == {"s1"}

\* the socket events, each handled to its end before the next one arrives
SocketNext ==
  \/ \E t \in TaskIds : LedgerStep(t)
  \/ \E t \in TaskIds : RsStatus(t) \/ RsLen(t) \/ RsAvail(t) \/ RsAssign(t)
  \/ \E t \in TaskIds : HAfter(t)
  \/ \E t \in TaskIds : BqLen(t) \/ BqEmit(t)
  \/ \E t \in TaskIds : SmSession(t)
  \/ \E t \in TaskIds, ok \in BOOLEAN : SmKnowledge(t, ok)
  \/ \E t \in TaskIds, ok \in BOOLEAN : SmAi(t, ok)
  \/ \E t \in TaskIds : SmEmit(t)
  \/ \E id \in StaffIds, st \in {"online", "offline"} : UpdateStatus(id, st)
  \/ Quiet /\ \E s \in SocketSessions : StartRequestStaff(1, s, "medium")
  \/ Quiet /\ \E s \in SocketSessions, id \in StaffArgs : StartAssignChatManual(1, s, id)
  \/ Quiet /\ \E s \in SocketSessions : StartAssignChatAuto(1, s)
  \/ Quiet /\ \E s \in SocketSessions, from \in StaffIds, to \in StaffArgs :
        StartTransferChatEvent(1, s, from, to)
  \/ Quiet /\ \E s \in SocketSessions : StartCompleteChat(1, s)
  \/ Quiet /\ \E s \in SocketSessions, role \in {"customer", "staff"} :
        StartSendMessage(1, s, role)

SpecSocket == Init /\ [][SocketNext]_vars

\* the ledger operations on assignments, one call at a time: chats are
\* assigned by hand, handed over and marked resolved
TransferNext ==
  \/ \E t \in TaskIds :
       AcsNotFound(t) \/ AcsFull(t) \/ AcsFind(t) \/ AcsUpd(t) \/ AcsAsg(t) \/ AcsRm(t)
  \/ \E t \in TaskIds : CompleteStep(t)
  \/ \E t \in TaskIds : TransferStep(t)
  \/ \E t \in TaskIds : Resolve(t)
  \/ Quiet /\ \E s \in LedgerSessions, id \in StaffArgs : StartAssignChatToStaff(1, s, id)
  \/ Quiet /\ \E s \in LedgerSessions : StartCompleteAssignment(1, s)
  \/ Quiet /\ \E s \in LedgerSessions, from \in StaffIds, to \in StaffArgs :
        StartTransferChat(1, s, from, to)

SpecTransfer == Init /\ [][TransferNext]_vars

TransferSession == "s1"

\* a staff member holds the session that is going to be handed over
TransferRaceInit ==
  /\ \E owner \in StaffIds :
       /\ staff = [id \in StaffIds |->
                     [InitialStaff[id] EXCEPT
                        !.status = "online",
                        !.currentChatCount = IF id = owner THEN 1 ELSE 0]]
       /\ heap = [o \in ObjIds |->
                    IF o = 1 THEN [sessionId |-> TransferSession, staffId |-> owner,
                                   status |-> "assigned"]
                    ELSE FreeObj]
  /\ ledger = {1}
  /\ queue = <<>>
  /\ sessions = [s \in SessionIds |->
                   [status |-> IF s = TransferSession THEN "with_staff" ELSE "active",
                    messages |-> <<>>]]
  /\ now = 0
  /\ tasks = [t \in TaskIds |-> IdleTask]
  /\ NoClients

\* one transfer of the session runs while a second caller assigns the other
\* sessions by hand, one call after the other and each session once
TransferRaceNext ==
  \/ \E from \in StaffIds, to \in StaffArgs : StartTransferChat(1, TransferSession, from, to)
  \/ \E t \in TaskIds : TransferStep(t)
  \/ \E t \in TaskIds : RollbackStep(t)
  \/ \E s \in SessionIds \ {TransferSession}, id \in StaffIds :
       /\ \A o \in ledger : heap[o].sessionId # s
       /\ StartAssignChatToStaff(2, s, id)
  \/ \E t \in TaskIds : AcsFull(t) \/ AcsFind(t) \/ AcsUpd(t) \/ AcsAsg(t) \/ AcsRm(t)
  \/ Resolve(2)

SpecTransferRace == TransferRaceInit /\ [][TransferRaceNext]_vars

RouteSessions == {"s1"}

\* auto-assignment under every presence and load of the staff: statuses
\* change, loads go up and down through the StaffService, sessions that are
\* not waiting are queued, and assignNextChat is called, one call at a time
RouteNext ==
  \/ \E id \in StaffIds, st \in StaffStatuses : UpdateStatus(id, st)
  \/ Quiet /\ \E id \in StaffIds : StartAssignChat(1, id)
  \/ \E t \in TaskIds : AcUpd(t)
  \/ Quiet /\ \E id \in StaffIds : StartUnassignChat(1, id)
  \/ \E t \in TaskIds : UcDec(t)
  \/ \E s \in RouteSessions \ QueuedSessions(queue) : AddToQueue(s, "medium")
  \/ Quiet /\ StartAssignNextChat(1)
  \/ \E t \in TaskIds :
       AncEmpty(t) \/ AncAvail(t) \/ AncFind(t) \/ AncUpd(t) \/ AncAsg(t) \/ AncRm(t)
  \/ \E t \in TaskIds : Resolve(t)

SpecRoute == Init /\ [][RouteNext]_vars

\* the steps by which an event handler in flight goes on after an await
Continue ==
  \E t \in TaskIds :
    LedgerStep(t) \/ RsStatus(t) \/ RsLen(t) \/ RsAvail(t) \/ RsAssign(t) \/ HAfter(t)
      \/ BqLen(t) \/ BqEmit(t)

\* the socket events that queue sessions and that give or free staff
\* capacity, each handled to its end before the next one arrives
TriggerNext ==
  \/ Continue
  \/ Quiet /\ \E id \in StaffIds, st \in {"online", "offline"} : StaffStatusUpdate(id, st)
  \/ Quiet /\ \E s \in SocketSessions : StartRequestStaff(1, s, "medium")
  \/ Quiet /\ \E s \in SocketSessions, id \in StaffArgs : StartAssignChatManual(1, s, id)
  \/ Quiet /\ \E s \in SocketSessions : StartAssignChatAuto(1, s)
  \/ Quiet /\ \E s \in SocketSessions, from \in StaffIds, to \in StaffArgs :
        StartTransferChatEvent(1, s, from, to)
  \/ Quiet /\ \E s \in SocketSessions : StartCompleteChat(1, s)

\* a handler that has been resumed runs on: the event loop takes every
\* continuation that is ready; no event has to arrive
SpecTrigger == Init /\ [][TriggerNext]_vars /\ WF_vars(Continue)

\* the staff member whose sign-in and sockets are followed
ConnStaff == StaffOrder[1]

\* a member signs in, sockets connect, authenticate, join sessions, report
\* their status and disconnect
ConnNext ==
  \/ Login(ConnStaff)
  \/ \E c \in ConnIds : Connect(c)
  \/ \E c \in ConnIds, token \in {StaffTokens[ConnStaff], BadToken} :
       StartStaffAuthenticate(1, c, token)
  \/ \E t \in TaskIds : SaAfter(t)
  \/ \E c \in ConnIds, s \in {"s1", UnknownSession} : CustomerJoin(c, s)
  \/ \E c \in ConnIds : StaffStatusEvent(c, "away")
  \/ \E c \in ConnIds : Disconnect(c)

SpecConn == Init /\ [][ConnNext]_vars

\* a member signs in and authenticates sockets, a customer joins a session,
\* the session is assigned to the member, and sockets disconnect
DisconnectNext ==
  \/ Login(ConnStaff)
  \/ \E c \in ConnIds : Connect(c)
  \/ \E c \in ConnIds : StartStaffAuthenticate(1, c, StaffTokens[ConnStaff])
  \/ \E t \in TaskIds : SaAfter(t)
  \/ \E c \in ConnIds, s \in SocketSessions : CustomerJoin(c, s)
  \/ Quiet /\ \E s \in SocketSessions : StartAssignChatManual(1, s, ConnStaff)
  \/ \E t \in TaskIds : AcsFull(t) \/ AcsFind(t) \/ AcsUpd(t) \/ AcsAsg(t) \/ AcsRm(t)
  \/ \E t \in TaskIds : HAfter(t)
  \/ \E t \in TaskIds : BqLen(t) \/ BqEmit(t)
  \/ \E c \in ConnIds : Disconnect(c)

SpecDisconnect == Init /\ [][DisconnectNext]_vars

\* customers and staff write into one session while earlier messages are
\* still being answered
ChatNext ==
  \/ \E c \in ConnIds : Connect(c)
  \/ \E c \in ConnIds, s \in SocketSessions : CustomerJoin(c, s)
  \/ \E t \in TaskIds, c \in ConnIds, s \in SocketSessions, role \in {"customer", "staff"} :
        SendMessageFrom(t, c, s, role)
  \/ \E t \in TaskIds : SmSession(t)
  \/ \E t \in TaskIds, ok \in BOOLEAN : SmKnowledge(t, ok)
  \/ \E t \in TaskIds, ok \in BOOLEAN : SmAi(t, ok)
  \/ \E t \in TaskIds : SmEmit(t)

SpecChat == Init /\ [][ChatNext]_vars

\* staff members work over HTTP while sockets connect, authenticate with the
\* tokens the login route hands out and send assign_chat and complete_chat
HttpNext ==
  \/ \E id \in StaffIds : RouteLogin(id)
  \/ \E token \in TokenArgs, s \in SocketSessions, id \in StaffArgs :
        RouteAssignChat(token, s, id)
  \/ \E token \in TokenArgs, s \in SocketSessions, to \in StaffArgs :
        RouteTransferChat(token, s, to)
  \/ \E token \in TokenArgs, s \in SocketSessions : RouteCompleteChat(token, s)
  \/ \E c \in ConnIds : Connect(c)
  \/ \E c \in ConnIds, token \in TokenArgs : StartStaffAuthenticate(1, c, token)
  \/ \E t \in TaskIds : SaAfter(t)
  \/ Quiet /\ \E s \in SocketSessions, id \in StaffIds : StartAssignChatManual(1, s, id)
  \/ \E t \in TaskIds : AcsFull(t) \/ AcsFind(t) \/ AcsUpd(t) \/ AcsAsg(t) \/ AcsRm(t)
  \/ Quiet /\ \E s \in SocketSessions : StartCompleteChat(1, s)
  \/ \E t \in TaskIds : CompleteStep(t)
  \/ \E t \in TaskIds : HAfter(t)
  \/ \E t \in TaskIds : BqLen(t) \/ BqEmit(t)

SpecHttp == Init /\ [][HttpNext]_vars

\* ------------------------------------------------------------ properties
\* the non-completed assignments the Map holds for a session
ActiveObjs(sessionId) ==
  {o \in ledger : heap[o].sessionId = sessionId /\ heap[o].status # "completed"}

\* C4: after any sequence of create, transfer and complete operations every
\* session has at most one non-completed Assignment in the ledger
C4_OneActiveAssignment == \A s \in SessionIds : Cardinality(ActiveObjs(s)) <= 1

\* a create has just replaced the record of a session that was assigned before
C4_Witness ==
  \E t \in TaskIds :
    /\ tasks[t].op = "assignChatToStaff" /\ tasks[t].result = "ok"
    /\ Cardinality(ActiveObjs(tasks[t].sessionId)) = 1
    /\ \E id \in StaffIds : id # tasks[t].staffId /\ staff[id].currentChatCount > 0
    /\ Cardinality(ledger) = 1

\* C34: while no call is in flight, no session is both in the queue and the
\* owner of a non-completed assignment
C34_QueuedOrAssigned ==
  Quiet => \A s \in QueuedSessions(queue) : ActiveObjs(s) = {}

\* C5: a session identifier appears at most once in the queue (an enqueue of
\* a queued session is refused and leaves the queue unchanged)
C5_QueuedAtMostOnce ==
  \A i, j \in 1..Len(queue) : queue[i].sessionId = queue[j].sessionId => i = j

\* C7: a create never records an assignment for a session that has a
\* non-completed assignment with a different staff member
C7_ConflictRejected ==
  [][\A t \in TaskIds :
       (tasks[t].pc = "acs_asg" /\ tasks'[t].pc # "acs_asg")
         => ~ \E o \in ActiveObjs(tasks[t].sessionId) : heap[o].staffId # tasks[t].staffId]_vars

\* C8: a create re-invoked with the staff member that already holds the
\* session's non-completed assignment succeeds and leaves that member's
\* currentChatCount as it was
C8_CreateIdempotent ==
  [][\A t \in TaskIds :
       (/\ tasks'[t].op = "assignChatToStaff"
        /\ tasks'[t] # tasks[t]
        /\ \E o \in ActiveObjs(tasks'[t].sessionId) : heap[o].staffId = tasks'[t].staffId)
         => /\ tasks'[t].result \in {"none", "ok"}
            /\ staff'[tasks'[t].staffId].currentChatCount
                 = staff[tasks'[t].staffId].currentChatCount]_vars

\* C2: concurrent invocations of assignNextChat never assign the same queue
\* head twice: of two invocations that took the same head at most one succeeds
C2_NoDoubleAssign ==
  \A t1, t2 \in TaskIds :
    (/\ t1 # t2
     /\ tasks[t1].op = "assignNextChat" /\ tasks[t1].result = "ok"
     /\ tasks[t2].op = "assignNextChat" /\ tasks[t2].result = "ok")
      => tasks[t1].head # tasks[t2].head

\* the records the assignments Map holds
LedgerView == {heap[o] : o \in ledger}

AssignOps == {"assignNextChat", "assignChatToStaff"}

\* C9: assignment creation is all-or-nothing: the run in which an assignment
\* call fails changes no load, record or queue entry, a failing call has not
\* written before, and a call that has written goes on to succeed
C9_AllOrNothing ==
  [][\A t \in TaskIds :
       (tasks'[t] # tasks[t] /\ tasks'[t].op \in AssignOps)
         => /\ tasks'[t].result \notin {"none", "ok"}
                 => /\ staff' = staff /\ queue' = queue /\ LedgerView' = LedgerView
                    /\ tasks[t].pc \notin {"anc_asg", "anc_rm", "acs_asg", "acs_rm"}
            /\ (staff' # staff \/ queue' # queue \/ LedgerView' # LedgerView)
                 => \/ tasks'[t].pc \in {"anc_asg", "anc_rm", "acs_asg", "acs_rm"}
                    \/ tasks'[t].result = "ok"]_vars

\* the load increment of a manual assignment has failed: the member was below
\* capacity when listed and full when assignChat read it
C9_Witness ==
  \E t \in TaskIds :
    /\ tasks[t].op = "assignChatToStaff"
    /\ tasks[t].result = "Failed to assign chat to staff"

\* C3: for every interleaving of assignChat and unassignChat calls,
\* 0 <= currentChatCount <= maxConcurrentChats holds after every step
C3_LoadInRange ==
  \A id \in StaffIds :
    /\ 0 <= staff[id].currentChatCount
    /\ staff[id].currentChatCount <= staff[id].maxConcurrentChats

\* an increment was refused at the ceiling while a decrement of the same
\* member is in flight
C3_Witness ==
  \E t, u \in TaskIds :
    /\ tasks[t].op = "assignChat" /\ tasks[t].result = "false"
    /\ tasks[t].staffId \in StaffIds
    /\ staff[tasks[t].staffId].currentChatCount = staff[tasks[t].staffId].maxConcurrentChats
    /\ tasks[u].op = "unassignChat" /\ tasks[u].pc = "uc_dec"
    /\ tasks[u].staffId = tasks[t].staffId

\* the priorities of a sequence of queue entries
PrioritiesOf(q) == [i \in 1..Len(q) |-> q[i].priority]

\* entry i of q is of the highest priority queued and the earliest enqueued
\* of that priority
IsHeadEntry(q, i) ==
  \A j \in 1..Len(q) :
    /\ PriorityOrder(q[j].priority) <= PriorityOrder(q[i].priority)
    /\ q[j].priority = q[i].priority => i <= j

\* q without the entries of the session
WithoutSession(q, sessionId) == SelectSeq(q, LAMBDA e : e.sessionId # sessionId)

\* C6: the entry auto-assignment takes is of the highest priority queued and
\* the earliest enqueued of that priority, and taking it leaves the other
\* entries queued in their order; entries enqueued as [low, high, medium] are
\* served as [high, medium, low]
C6_QueueOrdering ==
  /\ [](PrioritiesOf(queue) = <<"low", "high", "medium">>
          => PrioritiesOf(GetQueue(queue)) = <<"high", "medium", "low">>)
  /\ [][\A t \in TaskIds :
          /\ (tasks[t].pc = "idle" /\ tasks'[t].pc = "anc_avail")
               => \E i \in 1..Len(queue) :
                    /\ IsHeadEntry(queue, i)
                    /\ tasks'[t].head = queue[i].sessionId
          /\ (tasks[t].pc = "anc_rm" /\ tasks'[t].pc # "anc_rm")
               => queue' = WithoutSession(queue, tasks[t].head)]_vars

\* auto-assignment took the high entry enqueued after a low one and before a
\* medium one
C6_Witness ==
  \E t \in TaskIds :
    /\ tasks[t].pc = "anc_avail"
    /\ PrioritiesOf(queue) = <<"low", "high", "medium">>
    /\ tasks[t].head = queue[2].sessionId
    /\ queue[1].sessionId # queue[2].sessionId

\* C1: a customer message on a session whose status is with_staff never
\* invokes generateResponse and never gets an AI-generated message appended
C1_NoDoubleAnswer ==
  [][\A t \in TaskIds :
       (/\ tasks[t].op = "send_message"
        /\ sessions[tasks[t].sessionId].status = "with_staff")
         => /\ ~(tasks[t].pc = "sm_kb" /\ tasks'[t].pc = "sm_ai")
            /\ tasks[t].pc = "sm_ai" =>
                 sessions'[tasks[t].sessionId].messages
                   # Append(sessions[tasks[t].sessionId].messages, "ai")]_vars

C29_MessagesInOrder ==
  [][/\ \A s \in SessionIds :
          /\ Len(sessions'[s].messages) >= Len(sessions[s].messages)
          /\ SubSeq(sessions'[s].messages, 1, Len(sessions[s].messages)) = sessions[s].messages
     /\ \A t \in TaskIds :
          /\ (Idle(t) /\ tasks'[t].op = "send_message") =>
               /\ sessions'[tasks'[t].sessionId].messages
                    = Append(sessions[tasks'[t].sessionId].messages, tasks'[t].result)
               /\ tasks'[t].seq = StoredCount(sessions')
          /\ (tasks[t].pc = "sm_session" /\ tasks'[t].pc # "sm_session") =>
               /\ MsgEmit(tasks[t].result, tasks[t].seq, SessionRoom(conns, tasks[t].sessionId))
                    \subseteq sent'
               /\ \A u \in TaskIds \ {t} :
                    (tasks[u].pc = "sm_session" /\ tasks[u].sessionId = tasks[t].sessionId)
                      => tasks[u].seq > tasks[t].seq]_vars

\* a staff message received after a customer's message has gone to the room
\* while the reply to the customer's message is still awaited
C29_Witness ==
  \E c \in ConnIds, u \in TaskIds :
    /\ conns[c].role = "customer"
    /\ tasks[u].pc = "sm_ai"
    /\ tasks[u].seq = 1
    /\ sessions["s1"].messages = <<"user", "staff">>
    /\ sent = MsgEmit("staff", 2, {c})

\* C24: the staff routes and the socket events work on the same state: while
\* no handler is in flight the routes' services hold the tokens, the staff
\* records and the assignments that the socket service's services hold, and
\* a session the routes hold an assigned record of is with_staff
C24_SameState ==
  Quiet =>
    /\ routes.tokens = tokens
    /\ \A id \in StaffIds : routes.staff[id] = staff[id]
    /\ \A s \in SessionIds :
         LET o == GetAssignment(heap, ledger, s)
         IN /\ routes.ledger[s] = IF o = NoRef THEN NoAssignment
                                  ELSE [staffId |-> heap[o].staffId, status |-> heap[o].status]
            /\ routes.ledger[s].status = "assigned" => sessions[s].status = "with_staff"

\* C25: assignChat returns false and changes nothing when the staff member is
\* unknown or currentChatCount has reached maxConcurrentChats, and otherwise
\* returns true and raises currentChatCount by exactly one
C25_AssignChatContract ==
  [][\A t \in TaskIds :
       /\ (Idle(t) /\ tasks'[t].op = "assignChat") =>
            /\ staff' = staff
            /\ tasks'[t].staffId \notin StaffIds =>
                 tasks'[t].pc = "done" /\ tasks'[t].result = "false"
       /\ (tasks[t].pc = "ac_upd" /\ tasks'[t] # tasks[t]) =>
            LET id == tasks[t].staffId
                count == staff[id].currentChatCount
            IN IF count = staff[id].maxConcurrentChats
               THEN staff' = staff /\ tasks'[t].result = "false"
               ELSE /\ staff' = SetCount(staff, id, count + 1)
                    /\ tasks'[t].result = "true"
       /\ tasks[t].op = "assignChat" \/ tasks'[t].op = "assignChat" =>
            UNCHANGED <<queue, heap, ledger, sessions>>]_vars

\* an increment of a member whose load is at the maximum has been refused
C25_Witness ==
  \E t \in TaskIds :
    /\ tasks[t].op = "assignChat"
    /\ tasks[t].pc = "done"
    /\ tasks[t].result = "false"
    /\ tasks[t].staffId \in StaffIds
    /\ staff[tasks[t].staffId].currentChatCount = staff[tasks[t].staffId].maxConcurrentChats
    /\ \A u \in TaskIds \ {t} : Idle(u)

\* C26: unassignChat lowers currentChatCount by one, leaves it at zero when
\* it is zero, and for an unknown staff member returns false without changing
\* anything
C26_UnassignChatContract ==
  [][\A t \in TaskIds :
       /\ (Idle(t) /\ tasks'[t].op = "unassignChat") =>
            /\ staff' = staff
            /\ tasks'[t].staffId \notin StaffIds =>
                 tasks'[t].pc = "done" /\ tasks'[t].result = "false"
       /\ (tasks[t].pc = "uc_dec" /\ tasks'[t] # tasks[t]) =>
            LET id == tasks[t].staffId
                count == staff[id].currentChatCount
            IN /\ staff' = SetCount(staff, id, IF count = 0 THEN 0 ELSE count - 1)
               /\ tasks'[t].result = "true"
       /\ \A id \in StaffIds : staff'[id].currentChatCount >= 0]_vars

\* a decrement of a member without chats has returned and the load is zero
C26_Witness ==
  \E t \in TaskIds :
    /\ tasks[t].op = "unassignChat"
    /\ tasks[t].pc = "done"
    /\ tasks[t].result = "true"
    /\ \A id \in StaffIds : staff[id].currentChatCount = 0

\* C27: getAvailableStaff returns exactly the staff members that are online
\* with currentChatCount < maxConcurrentChats in the state it is called in,
\* each of them once
C27_AvailableExact ==
  [][\A t \in TaskIds :
       (Idle(t) /\ tasks'[t].op = "getAvailableStaff") =>
         LET l == tasks'[t].list
             open == {id \in StaffIds : /\ staff[id].status = "online"
                                        /\ staff[id].currentChatCount
                                             < staff[id].maxConcurrentChats}
         IN /\ {l[i] : i \in 1..Len(l)} = open
            /\ Len(l) = Cardinality(open)]_vars

\* both members are online, the second one is full, and the list returned is
\* the first one alone
C27_Witness ==
  \E t \in TaskIds :
    /\ tasks[t].op = "getAvailableStaff"
    /\ tasks[t].list = <<StaffOrder[1]>>
    /\ staff[StaffOrder[2]].status = "online"
    /\ staff[StaffOrder[2]].currentChatCount = staff[StaffOrder[2]].maxConcurrentChats

\* C28: removeFromQueue of a session that is not queued changes nothing;
\* after removeFromQueue the session is not in the queue, and the entries of
\* the other sessions are there in the order they had
C28_RemoveFrame ==
  [][\A s \in SessionIds :
       (/\ queue' = RemoveFromQueueStore(queue, s)
        /\ UNCHANGED <<staff, heap, ledger, sessions, tasks>>)
         => /\ s \notin QueuedSessions(queue) => queue' = queue
            /\ s \notin QueuedSessions(queue')
            /\ WithoutSession(queue', s) = WithoutSession(queue, s)]_vars

\* C30: no increment is lost: with assignChat calls only, a staff member's
\* currentChatCount is the number of calls for that member that have returned
\* true, so two successful calls have raised it by two and one free unit lets
\* one call succeed
C30_NoLostUpdate ==
  \A id \in StaffIds :
    staff[id].currentChatCount
      = Cardinality({t \in TaskIds : /\ tasks[t].op = "assignChat"
                                     /\ tasks[t].pc = "done"
                                     /\ tasks[t].result = "true"
                                     /\ tasks[t].staffId = id})

\* C31: when the increment for the chosen staff member fails inside
\* assignNextChat, the head session stays queued and the call reports its
\* failure only after the remaining candidates were tried, so no other staff
\* member is available when it gives up
C31_RetryRemaining ==
  [][\A t \in TaskIds :
       (/\ tasks[t].op = "assignNextChat"
        /\ tasks[t].pc = "anc_upd"
        /\ tasks'[t] # tasks[t]
        /\ tasks'[t].pc # "anc_asg")
         => /\ queue' = queue
            /\ tasks[t].head \in QueuedSessions(queue')
            /\ \A id \in StaffIds \ {tasks[t].staffId} :
                 ~(/\ staff[id].status = "online"
                   /\ staff[id].currentChatCount < staff[id].maxConcurrentChats)]_vars

\* C39: when assignNextChat increments the load of the chosen staff member
\* and when it records the assignment, that staff member is online
C39_OnlineWhenAssigned ==
  [][\A t \in TaskIds :
       (/\ tasks[t].op = "assignNextChat"
        /\ \/ tasks[t].pc = "anc_upd" /\ tasks'[t].pc = "anc_asg"
           \/ tasks[t].pc = "anc_asg" /\ tasks'[t].pc = "anc_rm")
         => staff[tasks[t].staffId].status = "online"]_vars

NotifySessions == {"s1", "s2"}
StaffConn == "c1"
CustomerConn == "c2"

\* a staff member signed in on one socket and a customer on another: the
\* customer escalates sessions that are not waiting, staff and customer send
\* assign_chat with and without a staffId, one event at a time
NotifyNext ==
  \/ Login(ConnStaff)
  \/ \E c \in {StaffConn, CustomerConn} : Connect(c)
  \/ Quiet /\ StartStaffAuthenticate(1, StaffConn, StaffTokens[ConnStaff])
  \/ \E t \in TaskIds : SaAfter(t)
  \/ \E s \in NotifySessions : CustomerJoin(CustomerConn, s)
  \/ Quiet /\ \E s \in NotifySessions \ QueuedSessions(queue) :
        RequestStaffFrom(1, CustomerConn, s, "medium")
  \/ \E t \in TaskIds : RsStatus(t) \/ RsLen(t) \/ RsAvail(t) \/ RsAssign(t)
  \/ Quiet /\ \E c \in {StaffConn, CustomerConn}, s \in NotifySessions,
                  id \in {NoneId, ConnStaff} : AssignChatEvent(1, c, s, id)
  \/ \E t \in TaskIds :
       AncEmpty(t) \/ AncAvail(t) \/ AncFind(t) \/ AncUpd(t) \/ AncAsg(t) \/ AncRm(t)
  \/ \E t \in TaskIds : AcsFull(t) \/ AcsFind(t) \/ AcsUpd(t) \/ AcsAsg(t) \/ AcsRm(t)
  \/ \E t \in TaskIds : HAfter(t)
  \/ \E t \in TaskIds : BqLen(t) \/ BqEmit(t)

SpecNotify == Init /\ [][NotifyNext]_vars

\* C32: when the assignment attempt of a request_staff takes the head out of
\* the queue, the handler's broadcastQueueUpdate has not read the queue yet, so
\* that its queue_updated carries the queue the attempt leaves
C32_BroadcastAfterAttempt ==
  [][\A t \in TaskIds :
       (/\ tasks[t].handler = "request_staff"
        /\ tasks[t].op = "assignNextChat"
        /\ tasks'[t] # tasks[t]
        /\ queue' # queue)
         => \E u \in TaskIds :
              /\ tasks[u].op = "broadcastQueueUpdate"
              /\ tasks[u].handler = "request_staff"
              /\ tasks[u].pc = "bq_len"]_vars

\* the session a handler's successful assignment call has recorded
AssignedSession(t) ==
  IF tasks[t].op = "assignNextChat" THEN tasks[t].head ELSE tasks[t].sessionId

\* the sockets an event of the last step went to
ReceiversOf(out, event) == {m.to : m \in {x \in out : x.event = event}}

\* C33: a handler whose assignment call succeeded ends with the session
\* with_staff, a chat_assigned to the staff member's socket, a staff_joined to
\* the session's room and a call of broadcastQueueUpdate
C33_AssignmentNotified ==
  [][\A t \in TaskIds :
       (/\ tasks[t].pc = "h_after"
        /\ tasks[t].op \in {"assignNextChat", "assignChatToStaff"}
        /\ tasks[t].result = "ok"
        /\ tasks'[t] # tasks[t])
         => /\ sessions'[AssignedSession(t)].status = "with_staff"
            /\ OpenSocket(staffSockets[tasks[t].staffId]) \subseteq ReceiversOf(sent', "chat_assigned")
            /\ SessionRoom(conns, AssignedSession(t)) \subseteq ReceiversOf(sent', "staff_joined")
            /\ \E u \in TaskIds :
                 Idle(u) /\ tasks'[u].op = "broadcastQueueUpdate"]_vars

\* C35: after assign_chat without a staffId has assigned the queue head, the
\* session set with_staff and named in chat_assigned is the head, staff_joined
\* goes to the head's room, and no other session changes
C35_HeadIsNotified ==
  [][\A t \in TaskIds :
       (/\ tasks[t].pc = "h_after"
        /\ tasks[t].handler = "assign_chat"
        /\ tasks[t].op = "assignNextChat"
        /\ tasks[t].result = "ok"
        /\ tasks'[t] # tasks[t])
         => /\ sessions' = SetSessionStatus(sessions, tasks[t].head, "with_staff")
            /\ ReceiversOf(sent', "staff_joined") = SessionRoom(conns, tasks[t].head)
            /\ \A m \in sent' : m.event = "chat_assigned" => m.sessionId = tasks[t].head]_vars

\* the non-completed assignments the Map holds for a staff member
ActiveOf(id) == {o \in ledger : heap[o].staffId = id /\ heap[o].status # "completed"}

\* C10: completing a session a second time changes nothing: with completions
\* only, every staff member's load stays the number of chats that member
\* still holds, so no completion is counted twice
C10_CompleteOnce ==
  (\A t \in TaskIds : tasks[t].pc \in {"idle", "done"})
    => \A id \in StaffIds : staff[id].currentChatCount = Cardinality(ActiveOf(id))

\* every staff member's currentChatCount
Loads == [id \in StaffIds |-> staff[id].currentChatCount]

\* C36: while no call is in flight, every staff member's currentChatCount is
\* the number of non-completed assignments the ledger holds for that member
C36_LoadIsActiveCount ==
  Quiet => \A id \in StaffIds : staff[id].currentChatCount = Cardinality(ActiveOf(id))

\* C37: the disconnect of a socket leaves alone every registration that points to
\* another socket: a staff member whose socket is a newer one stays registered
\* there and keeps the status, and so does a session's customer socket
C37_ReconnectKept ==
  [][\A c \in ConnIds :
       (conns[c].open /\ ~conns'[c].open)
         => /\ \A id \in StaffIds :
                 staffSockets[id] \notin {c, NoConn}
                   => /\ staffSockets'[id] = staffSockets[id]
                      /\ staff'[id].status = staff[id].status
            /\ \A sid \in DOMAIN customerSockets :
                 customerSockets[sid] \notin {c, NoConn}
                   => customerSockets'[sid] = customerSockets[sid]]_vars

\* a staff member signs in and authenticates one socket, a customer joins on
\* the other, and both sockets, before and after, send the staff events and a
\* send_message with role 'staff' in the payload, one event at a time
GateNext ==
  \/ Login(ConnStaff)
  \/ \E c \in {StaffConn, CustomerConn} : Connect(c)
  \/ Quiet /\ StartStaffAuthenticate(1, StaffConn, StaffTokens[ConnStaff])
  \/ \E t \in TaskIds : SaAfter(t)
  \/ \E s \in SocketSessions : CustomerJoin(CustomerConn, s)
  \/ Quiet /\ \E c \in ConnIds, s \in SocketSessions, id \in StaffIds :
        AssignChatEvent(1, c, s, id)
  \/ Quiet /\ \E c \in ConnIds, s \in SocketSessions, to \in StaffArgs :
        TransferChatEvent(1, c, s, to)
  \/ Quiet /\ \E c \in ConnIds, s \in SocketSessions : CompleteChatEvent(1, c, s)
  \/ Quiet /\ \E c \in ConnIds, s \in SocketSessions : SendMessageFrom(1, c, s, "staff")
  \/ \E t \in TaskIds : AcsFull(t) \/ AcsFind(t) \/ AcsUpd(t) \/ AcsAsg(t) \/ AcsRm(t)
  \/ \E t \in TaskIds : CompleteStep(t)
  \/ \E t \in TaskIds : TransferStep(t)
  \/ \E t \in TaskIds : HAfter(t)
  \/ \E t \in TaskIds : BqLen(t) \/ BqEmit(t)
  \/ \E t \in TaskIds : SmSession(t)

SpecGate == Init /\ [][GateNext]_vars

\* C38: an assign_chat, transfer_chat or complete_chat is handled only for a
\* socket whose role is staff, and a send_message is stored as a staff message
\* only when the sending socket's role is staff
C38_RoleGated ==
  [][\A t \in TaskIds :
       (Idle(t) /\ tasks'[t].op \notin {"idle", "broadcastQueueUpdate"})
         => /\ tasks'[t].handler \in {"assign_chat", "transfer_chat", "complete_chat"}
                 => conns[tasks'[t].conn].role = "staff"
            /\ (tasks'[t].handler = "send_message" /\ tasks'[t].result = "staff")
                 => conns[tasks'[t].conn].role = "staff"]_vars

\* C40: a step of updateStatus changes no currentChatCount and a step of
\* assignChat or unassignChat changes no status, whatever runs in between
C40_StatusLoadIndependent ==
  [][/\ tasks' = tasks => Loads' = Loads
     /\ tasks' # tasks => \A id \in StaffIds : staff'[id].status = staff[id].status]_vars

\* assignChat has raised the load of a member whose status was changed, and
\* an unassignChat of that member is waiting with its reading
C40_Witness ==
  \E t, u \in TaskIds :
    /\ tasks[t].op = "assignChat" /\ tasks[t].pc = "done" /\ tasks[t].result = "true"
    /\ tasks[u].op = "unassignChat" /\ tasks[u].pc = "uc_dec"
    /\ tasks[u].staffId = tasks[t].staffId
    /\ staff[tasks[t].staffId].status = "busy"
    /\ staff[tasks[t].staffId].currentChatCount = 1

\* C11: completed is terminal: a transfer of a session whose assignment is
\* completed changes neither the assignment's staffId or status nor any staff
\* member's load
C11_CompletedTerminal ==
  [][\A t \in TaskIds :
       (/\ tasks[t].op = "transferChat"
        /\ tasks'[t] # tasks[t]
        /\ tasks[t].ref # NoRef
        /\ heap[tasks[t].ref].status = "completed")
         => /\ Loads' = Loads
            /\ LedgerView' = LedgerView]_vars

\* C12: complete on a session without an assignment fails: completeAssignment
\* returns false and changes no load and no record, and the complete_chat
\* handler that got the failure leaves the session's status as it was; with an
\* assignment the record is set to completed
C12_CompleteNotFound ==
  [][\A t \in TaskIds :
       /\ (tasks[t].pc = "ca_upd" /\ tasks'[t] # tasks[t])
            => IF tasks[t].ref = NoRef
               THEN /\ tasks'[t].result = "false"
                    /\ Loads' = Loads
                    /\ LedgerView' = LedgerView
               ELSE \A o \in ledger' :
                      heap'[o].sessionId = tasks[t].sessionId => heap'[o].status = "completed"
       /\ (/\ tasks[t].handler = "complete_chat" /\ tasks[t].pc = "h_after"
           /\ tasks[t].result = "false" /\ tasks'[t] # tasks[t])
            => sessions' = sessions]_vars

\* the record the assignments Map holds for the session has another owner
OwnedByOther(sessionId, staffId) ==
  \E o \in ledger : heap[o].sessionId = sessionId /\ heap[o].staffId # staffId

\* the assignments Map holds no record for the session
Unassigned(sessionId) == \A o \in ledger : heap[o].sessionId # sessionId

\* C13: a transfer of a session that has no assignment, or whose assignment
\* is owned by another staff member than fromStaffId, fails with the mismatch
\* error, and the failing call changes no assignment and no load
C13_TransferMismatch ==
  [][\A t \in TaskIds :
       (tasks[t].op = "transferChat" /\ tasks'[t] # tasks[t])
         => /\ (/\ tasks[t].pc = "tc_all"
                /\ \/ Unassigned(tasks[t].sessionId)
                   \/ OwnedByOther(tasks[t].sessionId, tasks[t].staffId))
                 => tasks'[t].result = "Assignment not found or staff mismatch"
            /\ tasks'[t].result = "Assignment not found or staff mismatch"
                 => /\ tasks[t].pc = "tc_all"
                    /\ Loads' = Loads
                    /\ LedgerView' = LedgerView]_vars

\* a transfer was refused because the session is assigned to another member
\* than the caller named, and that member's load and record are in place
C13_Witness ==
  \E t \in TaskIds :
    /\ tasks[t].op = "transferChat"
    /\ tasks[t].result = "Assignment not found or staff mismatch"
    /\ \E o \in ledger :
         /\ heap[o].sessionId = tasks[t].sessionId
         /\ heap[o].status = "assigned"
         /\ heap[o].staffId # tasks[t].staffId
         /\ staff[heap[o].staffId].currentChatCount = 1

\* C14: a transfer by the owner to a staff member at capacity fails with the
\* capacity error, and the failing call changes no load and no assignment
C14_TransferCapacity ==
  [][\A t \in TaskIds :
       (tasks[t].op = "transferChat" /\ tasks'[t] # tasks[t])
         => /\ (/\ tasks[t].pc = "tc_all"
                /\ tasks[t].ref # NoRef
                /\ heap[tasks[t].ref].staffId = tasks[t].staffId
                /\ tasks[t].toStaffId \in StaffIds
                /\ staff[tasks[t].toStaffId].currentChatCount
                     >= staff[tasks[t].toStaffId].maxConcurrentChats)
                 => tasks'[t].pc = "tc_full"
            /\ tasks[t].pc = "tc_full"
                 => tasks'[t].result = "Target staff member at maximum capacity"
            /\ (\/ tasks'[t].pc = "tc_full"
                \/ tasks'[t].result = "Target staff member at maximum capacity")
                 => /\ tasks[t].pc \in {"tc_all", "tc_full"}
                    /\ Loads' = Loads
                    /\ LedgerView' = LedgerView]_vars

\* a transfer to another member who is full was refused: the caller still
\* owns the session and both loads are what they were
C14_Witness ==
  \E t \in TaskIds :
    /\ tasks[t].op = "transferChat"
    /\ tasks[t].result = "Target staff member at maximum capacity"
    /\ tasks[t].toStaffId # tasks[t].staffId
    /\ staff[tasks[t].toStaffId].currentChatCount
         = staff[tasks[t].toStaffId].maxConcurrentChats
    /\ staff[tasks[t].staffId].currentChatCount = 1
    /\ \E o \in ledger :
         /\ heap[o].sessionId = tasks[t].sessionId
         /\ heap[o].status = "assigned"
         /\ heap[o].staffId = tasks[t].staffId

\* C15: a successful transfer takes one off the load of fromStaffId, adds one
\* to the load of toStaffId, sets the record's staffId to toStaffId, leaves
\* the record non-completed and adds no record
C15_TransferMoves ==
  [][\A t \in TaskIds :
       (tasks[t].op = "transferChat" /\ tasks'[t] # tasks[t])
         => /\ tasks[t].pc = "tc_undec"
                 => staff'[tasks[t].staffId].currentChatCount
                      = staff[tasks[t].staffId].currentChatCount - 1
            /\ (tasks[t].pc = "tc_upd" /\ tasks'[t].pc = "tc_set")
                 => staff'[tasks[t].toStaffId].currentChatCount
                      = staff[tasks[t].toStaffId].currentChatCount + 1
            /\ tasks[t].pc = "tc_set"
                 => /\ tasks'[t].result = "ok"
                    /\ Cardinality(ledger') = Cardinality(ledger)
                    /\ \A o \in ledger' :
                         heap'[o].sessionId = tasks[t].sessionId
                           => /\ heap'[o].staffId = tasks[t].toStaffId
                              /\ heap'[o].status # "completed"]_vars

\* C16: when the increment on toStaffId fails after the decrement on
\* fromStaffId, the decrement is rolled back and the load counts stay
\* balanced: once the failed transfer and the calls beside it have returned,
\* every staff member's load is the number of chats that member holds
C16_RollbackBalanced ==
  (/\ tasks[1].result = "Failed to assign to new staff member"
   /\ \A t \in TaskIds : tasks[t].pc \in {"idle", "done"})
    => \A id \in StaffIds : staff[id].currentChatCount = Cardinality(ActiveOf(id))

\* the staff member is online and below capacity
IsAvailable(id) ==
  /\ staff[id].status = "online"
  /\ staff[id].currentChatCount < staff[id].maxConcurrentChats

\* the place of a staff member in the staff Map
Position(id) == CHOOSE i \in 1..Len(StaffOrder) : StaffOrder[i] = id

\* C17: least-loaded routing: the staff member assignNextChat selects is
\* online and below capacity at the selection, no available member has a
\* smaller load, among the least loaded the first of the staff Map is taken,
\* somebody is selected whenever somebody is available, and the record of a
\* successful call names the selected member
C17_LeastLoaded ==
  [][\A t \in TaskIds :
       (tasks[t].op = "assignNextChat" /\ tasks'[t] # tasks[t])
         => /\ (tasks[t].pc = "anc_avail" /\ tasks'[t].pc = "anc_find")
                 => LET c == tasks'[t].staffId
                    IN /\ c \in StaffIds
                       /\ IsAvailable(c)
                       /\ \A id \in StaffIds :
                            IsAvailable(id)
                              => /\ staff[id].currentChatCount >= staff[c].currentChatCount
                                 /\ staff[id].currentChatCount = staff[c].currentChatCount
                                      => Position(c) <= Position(id)
            /\ (tasks[t].pc = "anc_avail" /\ \E id \in StaffIds : IsAvailable(id))
                 => tasks'[t].pc = "anc_find"
            /\ tasks[t].pc \in {"anc_find", "anc_upd", "anc_asg", "anc_rm"}
                 => tasks'[t].staffId = tasks[t].staffId
            /\ tasks[t].pc = "anc_asg"
                 => \E o \in ledger' : /\ heap'[o].sessionId = tasks[t].head
                                       /\ heap'[o].staffId = tasks[t].staffId
            /\ tasks'[t].result = "ok" => tasks[t].pc = "anc_rm"]_vars

\* the second staff member was selected while the first one was available
\* with a greater load
C17_Witness ==
  \E t \in TaskIds :
    /\ tasks[t].op = "assignNextChat"
    /\ tasks[t].pc = "anc_find"
    /\ tasks[t].staffId = StaffOrder[2]
    /\ IsAvailable(StaffOrder[1])
    /\ staff[StaffOrder[1]].currentChatCount > staff[StaffOrder[2]].currentChatCount

\* C18: with no staff member available an escalation is not dropped: the
\* request_staff handler ends with the session queued, waiting_for_staff and
\* no assignment made, and assignNextChat reports 'No available staff' and
\* leaves the head queued, with no assignment made and no load changed; the
\* handler that gets that report changes nothing either
C18_NotDropped ==
  [][\A t \in TaskIds :
       (tasks'[t] # tasks[t] /\ \A id \in StaffIds : ~IsAvailable(id))
         => /\ tasks[t].pc = "rs_avail"
                 => /\ tasks'[t].pc = "idle"
                    /\ tasks[t].sessionId \in QueuedSessions(queue')
                    /\ sessions'[tasks[t].sessionId].status = "waiting_for_staff"
                    /\ LedgerView' = LedgerView
                    /\ Loads' = Loads
            /\ tasks[t].pc = "anc_avail"
                 => /\ tasks'[t].result = "No available staff"
                    /\ queue' = queue
                    /\ tasks[t].head \in QueuedSessions(queue')
                    /\ LedgerView' = LedgerView
                    /\ Loads' = Loads
            /\ (tasks[t].pc = "h_after" /\ tasks[t].result = "No available staff")
                 => /\ queue' = queue
                    /\ sessions' = sessions
                    /\ LedgerView' = LedgerView
                    /\ Loads' = Loads]_vars

\* auto-assignment has reported that nobody is available, and the session
\* that asked for staff is still queued and waiting, without an assignment
C18_Witness ==
  \E t \in TaskIds :
    /\ tasks[t].op = "assignNextChat"
    /\ tasks[t].result = "No available staff"
    /\ tasks[t].head \in QueuedSessions(queue)
    /\ sessions[tasks[t].head].status = "waiting_for_staff"
    /\ Unassigned(tasks[t].head)
    /\ \A id \in StaffIds : ~IsAvailable(id)

\* C19: auto-assignment is triggered whenever capacity appears (after a
\* complete, after a transfer-out, when a staff member comes online): a
\* session waiting in the queue while a staff member is online and below
\* capacity is eventually taken off the queue by an assignment
C19_EventuallyAssigned ==
  \A s \in SocketSessions :
    (s \in QueuedSessions(queue) /\ \E id \in StaffIds : IsAvailable(id))
      ~> (s \notin QueuedSessions(queue))

\* C20: session status does not drift from the queue and the ledger: when no
\* handler is in flight, a session is with_staff exactly when it has a
\* non-completed assignment, and waiting_for_staff exactly when it is queued
\* without such an assignment
C20_StatusInSync ==
  Quiet
    => \A s \in SocketSessions :
         /\ sessions[s].status = "with_staff" <=> ActiveObjs(s) # {}
         /\ sessions[s].status = "waiting_for_staff"
              <=> (s \in QueuedSessions(queue) /\ ActiveObjs(s) = {})

\* C21: a connection starts without a role; it becomes staff only through a
\* staff_authenticate whose token maps to a staff member, and customer only
\* through a customer_join with the id of an existing session; a connection
\* that is staff or customer keeps that role
C21_RoleMachine ==
  [][\A c \in ConnIds :
       /\ (~conns[c].open /\ conns'[c].open) => conns'[c].role = "none"
       /\ (conns[c].open /\ conns'[c].open)
            => /\ conns[c].role \in {"staff", "customer"} => conns'[c].role = conns[c].role
               /\ (conns[c].role = "none" /\ conns'[c].role = "staff")
                    => \E t \in TaskIds : /\ tasks[t].handler = "staff_authenticate"
                                          /\ tasks[t].conn = c
                                          /\ tasks[t].staffId \in StaffIds
               /\ (conns[c].role = "none" /\ conns'[c].role = "customer")
                    => conns'[c].sessionId \in DOMAIN sessions]_vars

\* C22: the disconnect of a staff connection sets its staff member offline
\* and notifies the other staff connections; the disconnect of a customer
\* connection drops the session's socket mapping and notifies nobody; neither
\* changes an assignment, a load, the queue or a session
C22_DisconnectEffects ==
  [][\A c \in ConnIds :
       (conns[c].open /\ ~conns'[c].open)
         => /\ Loads' = Loads
            /\ LedgerView' = LedgerView
            /\ queue' = queue
            /\ sessions' = sessions
            /\ conns[c].role = "staff"
                 => /\ staff'[conns[c].staffId].status = "offline"
                    /\ \A d \in ConnIds \ {c} :
                         (conns[d].open /\ conns[d].role = "staff")
                           => [event |-> "staff_offline", to |-> d] \in sent'
                    /\ \A m \in sent' : m.to # c
            /\ conns[c].role = "customer"
                 => /\ customerSockets'[conns[c].sessionId] = NoConn
                    /\ staff' = staff
                    /\ staffSockets' = staffSockets
                    /\ sent' = {}]_vars

\* a staff connection has gone: its member is offline, the other staff
\* connection was told, and the chat the member holds is still assigned
C22_Witness ==
  \E c, d \in ConnIds :
    /\ ~conns[c].open
    /\ conns[d].open /\ conns[d].role = "staff"
    /\ sent = {[event |-> "staff_offline", to |-> d]}
    /\ staff[ConnStaff].status = "offline"
    /\ staff[ConnStaff].currentChatCount = 1
    /\ \E s \in SocketSessions : ActiveObjs(s) # {} /\ sessions[s].status = "with_staff"

====
